---- MODULE Spec2Model ----
(***************************************************************************)
(* A state-machine model of scripts/orb-registration/orb-registration.py:  *)
(* the provisioning run of OrbRegistration (identity derivation, base      *)
(* image construction, the per-unit registration sequence against the      *)
(* Management API and Core-App, and the artifact store).                   *)
(*                                                                         *)
(* External tools (ssh-keygen, mke2fs, tune2fs, mount, install, setfacl,   *)
(* sync, umount, cloudflared) and the two HTTP backends are the            *)
(* environment: every invocation may succeed or fail, and the script sees  *)
(* only the exit status or the HTTP reply.                                 *)
(***************************************************************************)
EXTENDS Integers, Sequences, FiniteSets, TLC

(***************************************************************************)
(* Bounds of the model.                                                    *)
(***************************************************************************)
\* largest --count of an interactive (pearl) run
MaxCount == 2
\* largest number of identities in a batch (diamond) input
MaxBatch == 2
\* longest freely chosen prefix of a raw identity given to check_orb_id_format
MaxHead == 2

(***************************************************************************)
(* Strings are sequences of one-character strings, so that lower(),        *)
(* zfill() and len() act on characters.                                    *)
(***************************************************************************)
IdLen == 8

Str_0000002a == <<"0", "0", "0", "0", "0", "0", "2", "a">>
Str_abcdef12 == <<"a", "b", "c", "d", "e", "f", "1", "2">>

\* the identities that occur in the model
Ids == {Str_0000002a, Str_abcdef12}
NoId == <<>>

\* display names the Management API hands out, and tokens it issues
Names == {"orb-one", "orb-two"}
NoName == ""
Tokens == {"tok-x", "tok-y"}
NoToken == ""

\* what cloudflared access token prints
CfTokens == {"cf-a", "cf-b"}
NoCfToken == ""

\* --hardware-version values: one per branch of detect_platform
Hw(prefix, rest) == [prefix |-> prefix, rest |-> rest]
HwVersions == {Hw("PEARL_", "EVT1"), Hw("DIAMOND_", "EVT2"), Hw("JETSON_", "X")}

(***************************************************************************)
(* Key material: ssh-keygen writes a fresh ed25519 keypair; the identity   *)
(* is the first 8 hex characters of the SHA-256 digest of the public key.  *)
(* The digest is a fixed table here; two of the keys share a prefix, so    *)
(* that a 32-bit prefix collision is a case of the model.                  *)
(***************************************************************************)
Keys == {"key1", "key2", "key3"}
NoKey == ""

HexDigits ==
    <<"0", "1", "2", "3", "4", "5", "6", "7", "8", "9", "a", "b", "c", "d", "e", "f">>

\* 56 hex digits that differ from key to key
DigestTail(m) == [j \in 1..56 |-> HexDigits[((j * m) % 16) + 1]]

\* hashlib.sha256(public_key.encode()).hexdigest(): 64 lowercase hex digits
Sha256Table ==
    [k \in Keys |->
        CASE k = "key1" -> Str_0000002a \o DigestTail(3)
          [] k = "key2" -> Str_abcdef12 \o DigestTail(5)
          [] k = "key3" -> Str_0000002a \o DigestTail(7)]

Sha256Hex(k) == Sha256Table[k]

Sha256Last8(k) == SubSeq(Sha256Hex(k), Len(Sha256Hex(k)) - 7, Len(Sha256Hex(k)))

\* hexdigest()[:8]
Sha256Prefix(k) == SubSeq(Sha256Hex(k), 1, 8)

(***************************************************************************)
(* Disk images and the files on them.                                      *)
(***************************************************************************)
persistent_size_kib == 1 * 1024

persistent_size == 1024 * 1024
persistent_journaled_size == 10 * 1024 * 1024

NoImage ==
    [size |-> 0, fs |-> "none", journal |-> FALSE, acl |-> FALSE,
     defacl |-> FALSE, files |-> {}]

\* open(..., "wb").write(b"\x00" * size)
ZeroImage(size) == [NoImage EXCEPT !.size = size]

File(name, uid, gid, mode, data) ==
    [name |-> name, uid |-> uid, gid |-> gid, mode |-> mode, data |-> data]

\* install(1) replaces a file of the same name
AddFile(files, f) == {g \in files : g.name # f.name} \cup {f}

\* the image loops of create_persistent_images and save_orb_artifacts:
\* 1 is persistent.img, 2 is persistent-journaled.img
ImgNames == <<"persistent.img", "persistent-journaled.img">>

CpiPrepFirstImageOnly ==
    << [tool |-> "mke2fs",  n |-> 1, journal |-> FALSE],
       [tool |-> "tune2fs", n |-> 1, journal |-> FALSE] >>

\* the tool invocations of create_persistent_images before the mount loop
CpiPrep ==
    << [tool |-> "mke2fs",  n |-> 2, journal |-> TRUE],
       [tool |-> "mke2fs",  n |-> 1, journal |-> FALSE],
       [tool |-> "tune2fs", n |-> 2, journal |-> TRUE],
       [tool |-> "tune2fs", n |-> 1, journal |-> FALSE] >>

\* the body of the try block of create_persistent_images
CpiTry ==
    << [tool |-> "install", name |-> "components.json",  uid |-> 0,    gid |-> 1000, mode |-> 664],
       [tool |-> "install", name |-> "calibration.json", uid |-> 1000, gid |-> 1000, mode |-> 664],
       [tool |-> "install", name |-> "versions.json",    uid |-> 1000, gid |-> 1000, mode |-> 664],
       [tool |-> "setfacl", name |-> "",                 uid |-> 0,    gid |-> 0,    mode |-> 0],
       [tool |-> "sync",    name |-> "",                 uid |-> 0,    gid |-> 0,    mode |-> 0] >>

\* the body of the try block of save_orb_artifacts
SoaTry ==
    << [tool |-> "install", name |-> "orb-name", uid |-> 0, gid |-> 0, mode |-> 644],
       [tool |-> "install", name |-> "token",    uid |-> 0, gid |-> 0, mode |-> 644],
       [tool |-> "sync",    name |-> "",         uid |-> 0, gid |-> 0, mode |-> 0] >>

\* a unit's directory under artifacts/
NoDir ==
    [exists |-> FALSE, uid |-> NoKey, pub |-> NoKey, name |-> NoName,
     token |-> NoToken, img |-> <<NoImage, NoImage>>]

VARIABLES
    mongo,      \* Management API: identity -> display name of its record
    coreapp,    \* Core-App: deviceId -> name of its orb row
    artifacts,  \* artifacts/<orb_id>/ of every identity
    build,      \* build/: uid, uid.pub and the two base images
    mounted,    \* images mounted at the mount point, innermost last
    mongo0,     \* the Management API records when the run started
    core0,      \* the Core-App rows when the run started
    args,       \* the command line of the run
    pc,         \* the position of the run
    i,          \* the unit (pearl) or input position (diamond), from 1
    img,        \* the image of the mount loop
    step,       \* the position in a list of tool invocations
    pending,    \* an exception is propagating through the finally block
    platform,   \* detect_platform's result
    orb_id,
    orb_name,
    token,
    cf_token,
    status,     \* running, success (the run returned), aborted (it raised)
    err,        \* the exception that ended the run
    log,        \* every external call of the run with its outcome
    files       \* the files of sign.py and generate_local_mcu_update.py

vars == <<mongo, coreapp, artifacts, build, mounted, mongo0, core0, args, pc, i,
          img, step, pending, platform, orb_id, orb_name, token, cf_token,
          status, err, log, files>>

backends == <<mongo, coreapp>>
disk == <<artifacts, build, mounted>>
snapshot == <<mongo0, core0>>
locals == <<platform, orb_id, orb_name, token, cf_token>>
loop == <<i, img, step, pending>>

(***************************************************************************)
(* Control: a step either moves on or raises; an exception reaches main's  *)
(* except clause, which prints it and exits with status 1.                 *)
(***************************************************************************)
Goto(p) == pc' = p /\ UNCHANGED <<status, err>>

RaiseSkipsUnit(kind) == pc' = "report" /\ status' = status /\ err' = kind

\* raise: nothing catches it before main
Raise(kind) == pc' = "exit" /\ status' = "aborted" /\ err' = kind

ExitStatusOfLastRun == IF status = "exited" THEN 1 ELSE 0

\* except Exception: sys.exit(1); otherwise main returns and the status is 0
ExitStatus == IF status = "aborted" THEN 1 ELSE 0

RunReturnsAndGoesOn == pc' = "unit" /\ status' = "success"

\* run returns to main, and main returns: the process ends with status 0
RunReturns == pc' = "exit" /\ status' = "success"

\* a tool invocation, or the call or return of one of the run's operations
Ev(op, n, res) ==
    [unit |-> i, id |-> orb_id, op |-> op, n |-> n, res |-> res, code |-> 0,
     name |-> NoName, cf |-> NoCfToken, platform |-> ""]

CfAccessTokenOfFirstLogin == "cf-a"

\* req.add_header("cf-access-token", cf_token)
CfAccessToken == cf_token

\* the cf-access-token header of a request: the Management API requests carry
\* one, the Core-App request does not
CfHeader(op) == IF op = "POST graphql" THEN NoCfToken ELSE CfAccessToken

\* "Platform": platform in the body of the create request
PlatformSent(op) == IF op = "POST orbs" THEN platform ELSE ""

\* an HTTP request with its reply: the kind, the status code, and the display
\* name (n) or affected_rows (n) of the body
HttpEv(op, r, n, name) ==
    [unit |-> i, id |-> orb_id, op |-> op, n |-> n, res |-> r.kind, code |-> r.code,
     name |-> name, cf |-> CfHeader(op), platform |-> PlatformSent(op)]

\* an operation returned this value (a display name, or a token)
Returned(op, name) == [Ev(op, 0, "return") EXCEPT !.name = name]

Logged(op, n, res) == log' = Append(log, Ev(op, n, res))

ToolRes(ok) == IF ok THEN "ok" ELSE "fail"

(***************************************************************************)
(* The mount point: mount(8) stacks on it, umount(8) releases the          *)
(* innermost mount, and a path below the mount point is a path on the      *)
(* innermost mounted image.                                                *)
(***************************************************************************)
BuildImg(n) == [dir |-> "build", id |-> NoId, n |-> n]

ArtifactImg(id, n) == [dir |-> "artifacts", id |-> id, n |-> n]

ImageAt(ref) ==
    IF ref.dir = "build" THEN build.img[ref.n] ELSE artifacts[ref.id].img[ref.n]

WriteImage(ref, image) ==
    IF ref.dir = "build"
    THEN /\ build' = [build EXCEPT !.img[ref.n] = image]
         /\ UNCHANGED artifacts
    ELSE /\ artifacts' = [artifacts EXCEPT ![ref.id].img[ref.n] = image]
         /\ UNCHANGED build

\* what one successful invocation of a try block does to the mounted image
StepEffect(s, image, data) ==
    CASE s.tool = "install" ->
            [image EXCEPT !.files = AddFile(@, File(s.name, s.uid, s.gid, s.mode, data))]
      [] s.tool = "setfacl" -> [image EXCEPT !.defacl = TRUE]
      [] OTHER -> image

\* a successful invocation below the mount point
OnMountPoint(s, data) ==
    IF mounted = <<>>
    THEN UNCHANGED <<artifacts, build>>
    ELSE LET ref == mounted[Len(mounted)]
         IN  WriteImage(ref, StepEffect(s, ImageAt(ref), data))

(***************************************************************************)
(* OrbRegistration.run, up to the per-unit loop.                           *)
(***************************************************************************)
\* run takes the pairs branch: an input file read with --input-format pairs
PairsMode ==
    args.platform = "diamond" /\ args.input_file /\ args.input_format = "pairs"

\* the branch of run that follows get_cloudflared_token
AfterToken ==
    IF args.platform = "pearl" THEN "cpi_write"
    ELSE IF PairsMode THEN "read_pairs" ELSE "detect"

\* cloudflared access login, then cloudflared access token
GetCloudflaredToken ==
    /\ pc = "cf_token"
    /\ \/ /\ Logged("cloudflared login", 0, "fail")
          /\ Raise("CalledProcessError")
          /\ UNCHANGED <<cf_token, i>>
       \/ /\ log' = log \o << Ev("cloudflared login", 0, "ok"),
                              Ev("cloudflared token", 0, "fail") >>
          /\ Raise("CalledProcessError")
          /\ UNCHANGED <<cf_token, i>>
       \/ \E t \in CfTokens :
            /\ log' = log \o << Ev("cloudflared login", 0, "ok"),
                                [Ev("cloudflared token", 0, "ok") EXCEPT !.cf = t] >>
            /\ cf_token' = t
            /\ i' = i
            /\ Goto(AfterToken)
    /\ UNCHANGED <<backends, disk, snapshot, args, img, step, pending, platform,
                   orb_id, orb_name, token>>
    /\ UNCHANGED files

(***************************************************************************)
(* create_persistent_images                                                *)
(***************************************************************************)
\* the two zero-filled files
CpiWriteImages ==
    /\ pc = "cpi_write"
    /\ build' = [build EXCEPT !.img = << ZeroImage(persistent_size),
                                         ZeroImage(persistent_journaled_size) >>]
    /\ step' = 1
    /\ Logged("create_persistent_images", 0, "call")
    /\ Goto("cpi_prep")
    /\ UNCHANGED <<backends, artifacts, mounted, snapshot, args, i, img, pending,
                   locals>>
    /\ UNCHANGED files

PrepEffect(s, image) ==
    IF s.tool = "mke2fs"
    THEN [image EXCEPT !.fs = "ext4", !.journal = s.journal, !.files = {}]
    ELSE [image EXCEPT !.acl = TRUE]

CpiRaisesButRunGoesOn == pc' = "unit" /\ UNCHANGED <<status, err>>

\* a tool of create_persistent_images exited non-zero: CalledProcessError
CpiRaises == Raise("CalledProcessError")

\* mke2fs on both images, tune2fs -o acl on both images, each with check=True
CpiPrepStep ==
    /\ pc = "cpi_prep"
    /\ \E ok \in BOOLEAN :
         LET s == CpiPrep[step]
         IN  /\ Logged(s.tool, s.n, ToolRes(ok))
             /\ IF ok
                THEN /\ build' = [build EXCEPT !.img[s.n] = PrepEffect(s, @)]
                     /\ IF step = Len(CpiPrep)
                        THEN /\ img' = 1
                             /\ step' = step
                             /\ Goto("cpi_mount")
                        ELSE /\ step' = step + 1
                             /\ img' = img
                             /\ Goto("cpi_prep")
                ELSE /\ CpiRaises
                     /\ UNCHANGED <<build, img, step>>
    /\ UNCHANGED <<backends, artifacts, mounted, snapshot, args, i, pending, locals>>
    /\ UNCHANGED files

\* mount -o loop <image> <mount_point>, outside the try block
CpiMount ==
    /\ pc = "cpi_mount"
    /\ \E ok \in BOOLEAN :
         /\ Logged("mount", img, ToolRes(ok))
         /\ IF ok
            THEN /\ mounted' = Append(mounted, BuildImg(img))
                 /\ step' = 1
                 /\ pending' = FALSE
                 /\ Goto("cpi_try")
            ELSE /\ CpiRaises
                 /\ UNCHANGED <<mounted, step, pending>>
    /\ UNCHANGED <<backends, artifacts, build, snapshot, args, i, img, locals>>
    /\ UNCHANGED files

\* an exception inside the try block runs the finally block before it propagates
CpiStepFailedSkipsFinally ==
    /\ Raise("CalledProcessError")
    /\ pending' = TRUE

CpiStepFailed ==
    /\ Goto("cpi_finally")
    /\ pending' = TRUE

\* install x3, setfacl -d, sync
CpiTryStep ==
    /\ pc = "cpi_try"
    /\ \E ok \in BOOLEAN :
         LET s == CpiTry[step]
         IN  /\ Logged(s.tool, img, ToolRes(ok))
             /\ IF ok
                THEN /\ OnMountPoint(s, s.name)
                     /\ pending' = pending
                     /\ IF step = Len(CpiTry)
                        THEN step' = step /\ Goto("cpi_finally")
                        ELSE step' = step + 1 /\ Goto("cpi_try")
                ELSE /\ CpiStepFailed
                     /\ UNCHANGED <<artifacts, build, step>>
    /\ UNCHANGED <<backends, mounted, snapshot, args, i, img, locals>>
    /\ UNCHANGED files

UmountNothing == mounted' = mounted

\* umount <mount_point> exited with 0: the innermost mount is released
UmountMountPoint == mounted' = SubSeq(mounted, 1, Len(mounted) - 1)

\* finally: umount <mount_point>, with check=True
CpiUmount ==
    /\ pc = "cpi_finally"
    /\ \E ok \in BOOLEAN :
         IF ok
         THEN /\ UmountMountPoint
              /\ IF pending
                 THEN /\ Logged("umount", img, "ok")
                      /\ CpiRaises
                      /\ UNCHANGED <<i, img>>
                 ELSE IF img = Len(ImgNames)
                      THEN /\ log' = log \o << Ev("umount", img, "ok"),
                                               Ev("create_persistent_images", 0, "return") >>
                           /\ i' = 1
                           /\ img' = img
                           /\ Goto("unit")
                      ELSE /\ Logged("umount", img, "ok")
                           /\ i' = i
                           /\ img' = img + 1
                           /\ Goto("cpi_mount")
         ELSE /\ Logged("umount", img, "fail")
              /\ CpiRaises
              /\ UNCHANGED <<mounted, i, img>>
    /\ UNCHANGED <<backends, artifacts, build, snapshot, args, step, pending, locals>>
    /\ UNCHANGED files

(***************************************************************************)
(* The replies of the two backends.  A reply is ok (a 2xx response whose   *)
(* body was read), http (urllib.error.HTTPError with its status code) or   *)
(* url (urllib.error.URLError: no response at all).  A backend answers a   *)
(* request according to its records, or fails.                             *)
(***************************************************************************)
HttpFailures == {[kind |-> "http", code |-> 500], [kind |-> "url", code |-> 0]}

WithName(rs) == {[kind |-> r.kind, code |-> r.code, name |-> NoName] : r \in rs}

\* POST /api/v1/orbs/<orb_id>: creates the record and names it, or 409
MongoCreateReplies(id) ==
    (IF mongo[id] = NoName
     THEN {[kind |-> "ok", code |-> 200, name |-> nm] : nm \in Names}
     ELSE {[kind |-> "http", code |-> 409, name |-> NoName]})
    \cup WithName(HttpFailures)

\* GET /api/v1/orbs/<orb_id>/details: the record's Name, or a body without one
MongoDetailsReplies(id) ==
    (IF mongo[id] = NoName
     THEN {[kind |-> "http", code |-> 404, name |-> NoName]}
     ELSE {[kind |-> "ok", code |-> 200, name |-> mongo[id]]})
    \cup {[kind |-> "ok", code |-> 200, name |-> NoName]}
    \cup WithName(HttpFailures)

\* POST /api/v1/orbs/<orb_id>/channel
MongoChannelReplies == {[kind |-> "ok", code |-> 200]} \cup HttpFailures

\* POST /api/v1/tokens?orbId=<orb_id>
MongoTokenReplies ==
    {[kind |-> "ok", code |-> 200, token |-> t] : t \in Tokens}
    \cup {[kind |-> r.kind, code |-> r.code, token |-> NoToken] : r \in HttpFailures}

\* affected_rows is absent from the payload (an errors payload, for one)
NoRows == -1

(***************************************************************************)
(* mutation InsertOrb: insert_orb(objects: [{deviceId, name, ...}],        *)
(* on_conflict: {constraint: orb_pkey}) names no update_columns, so a row  *)
(* that conflicts on the key is left as it is and affected_rows is 0; a    *)
(* new deviceId inserts one row.  A payload may also lack affected_rows or *)
(* report another count.                                                   *)
(***************************************************************************)
CoreAppReplies(id) ==
    {[kind |-> "ok", code |-> 200, rows |-> IF coreapp[id] = NoName THEN 1 ELSE 0]}
    \cup {[kind |-> "ok", code |-> 200, rows |-> n] : n \in {NoRows, 2}}
    \cup {[kind |-> r.kind, code |-> r.code, rows |-> NoRows] : r \in HttpFailures}

\* the row insert_orb leaves for deviceId id
InsertOrb(id, name, r) ==
    IF r.kind = "ok" /\ r.rows = 1 /\ coreapp[id] = NoName
    THEN [coreapp EXCEPT ![id] = name]
    ELSE coreapp

(***************************************************************************)
(* The order of the operations of one unit.                                *)
(***************************************************************************)
\* process_pearl_orb: the position after operation p returned
AfterPearlInventoryFirst(p) ==
    CASE p = "generate_orb_id" -> "detect"
      [] p = "detect_platform" -> "mongo_post"
      [] p = "register_orb_mongo" -> "set_channel"
      [] p = "set_orb_channel" -> "get_token"
      [] p = "get_orb_token" -> "core_app"
      [] p = "register_orb_core_app" -> "soa_prepare"
      [] p = "save_orb_artifacts" -> "report"

AfterPearlArtifactsFirst(p) ==
    CASE p = "generate_orb_id" -> "detect"
      [] p = "detect_platform" -> "mongo_post"
      [] p = "register_orb_mongo" -> "soa_prepare"
      [] p = "save_orb_artifacts" -> "set_channel"
      [] p = "set_orb_channel" -> "get_token"
      [] p = "get_orb_token" -> "core_app"
      [] p = "register_orb_core_app" -> "report"

AfterPearl(p) ==
    CASE p = "generate_orb_id" -> "detect"
      [] p = "detect_platform" -> "mongo_post"
      [] p = "register_orb_mongo" -> "set_channel"
      [] p = "set_orb_channel" -> "get_token"
      [] p = "get_orb_token" -> "soa_prepare"
      [] p = "save_orb_artifacts" -> "core_app"
      [] p = "register_orb_core_app" -> "report"

AfterDiamondIdsInventoryFirst(p) ==
    CASE p = "detect_platform" -> "batch"
      [] p = "check_orb_id_format" -> "core_app"
      [] p = "register_orb_core_app" -> "mongo_post"
      [] p = "register_orb_mongo" -> "report"

AfterDiamondIdsWithChannel(p) ==
    CASE p = "detect_platform" -> "batch"
      [] p = "check_orb_id_format" -> "mongo_post"
      [] p = "register_orb_mongo" -> "set_channel"
      [] p = "set_orb_channel" -> "core_app"
      [] p = "register_orb_core_app" -> "report"

\* process_diamond_orb_ids: detect_platform once, then per identity
AfterDiamondIds(p) ==
    CASE p = "detect_platform" -> "batch"
      [] p = "check_orb_id_format" -> "mongo_post"
      [] p = "register_orb_mongo" -> "core_app"
      [] p = "register_orb_core_app" -> "report"

AfterDiamondPairsViaMongo(p) ==
    CASE p = "check_orb_id_format" -> "mongo_post"
      [] p = "register_orb_mongo" -> "core_app"
      [] p = "register_orb_core_app" -> "report"

\* process_diamond_orb_pairs: per pair, no Management API call
AfterDiamondPairs(p) ==
    CASE p = "check_orb_id_format" -> "core_app"
      [] p = "register_orb_core_app" -> "report"

After(p) ==
    IF args.platform = "pearl" THEN AfterPearl(p)
    ELSE IF PairsMode THEN AfterDiamondPairs(p)
    ELSE AfterDiamondIds(p)

Return(p) == Goto(After(p))

(***************************************************************************)
(* The interactive (pearl) loop of run, and process_pearl_orb.             *)
(***************************************************************************)
\* generate_orb_id: ssh-keygen -f build/uid, then sha256(public key)[:8]
GenerateOrbId ==
    /\ pc = "unit"
    /\ i <= args.count
    /\ \E ok \in BOOLEAN, k \in Keys :
         /\ log' = log \o << Ev("generate_orb_id", 0, "call"),
                             [Ev("ssh-keygen", 0, ToolRes(ok)) EXCEPT
                                 !.name = IF ok THEN k ELSE NoKey] >>
         /\ IF ok
            THEN /\ build' = [build EXCEPT !.uid = k, !.pub = k]
                 /\ orb_id' = Sha256Prefix(build'.pub)
                 /\ Return("generate_orb_id")
            ELSE /\ Raise("CalledProcessError")
                 /\ UNCHANGED <<build, orb_id>>
    /\ UNCHANGED <<backends, artifacts, mounted, snapshot, args, loop, platform,
                   orb_name, token, cf_token>>
    /\ UNCHANGED files

\* "All N Pearl Orb IDs generated and registered successfully.", and run returns
AllUnitsDone ==
    /\ pc = "unit"
    /\ i > args.count
    /\ RunReturns
    /\ Logged("all_done", 0, "ok")
    /\ UNCHANGED <<backends, disk, snapshot, args, loop, locals, err>>
    /\ UNCHANGED files

StartsWith(hw, prefix) == hw.prefix = prefix

\* detect_platform: "" stands for the ValueError
detect_platform(hw) ==
    IF StartsWith(hw, "PEARL_") THEN "pearl"
    ELSE IF StartsWith(hw, "DIAMOND_") THEN "diamond"
    ELSE ""

DetectPlatform ==
    /\ pc = "detect"
    /\ LET d == detect_platform(args.hardware_version)
       IN  /\ Logged("detect_platform", 0, IF d = "" THEN "fail" ELSE "ok")
           /\ IF d = ""
              THEN /\ Raise("ValueError")
                   /\ UNCHANGED <<platform, i>>
              ELSE /\ platform' = d
                   /\ i' = IF args.platform = "pearl" THEN i ELSE 1
                   /\ Return("detect_platform")
    /\ UNCHANGED <<backends, disk, snapshot, args, img, step, pending, orb_id,
                   orb_name, token, cf_token>>
    /\ UNCHANGED files

(***************************************************************************)
(* register_orb_mongo and fetch_existing_orb_name                          *)
(***************************************************************************)
IsConflictNever(code) == FALSE

\* except urllib.error.HTTPError as e: if e.code == 409
IsConflict(code) == code = 409

RegisterOrbMongo ==
    /\ pc = "mongo_post"
    /\ \E r \in MongoCreateReplies(orb_id) :
         LET call == <<Ev("register_orb_mongo", 0, "call"), HttpEv("POST orbs", r, 0, r.name)>>
         IN  CASE r.kind = "ok" ->
                    /\ mongo' = [mongo EXCEPT ![orb_id] = r.name]
                    /\ orb_name' = r.name
                    /\ log' = log \o call \o <<Returned("register_orb_mongo", r.name)>>
                    /\ Return("register_orb_mongo")
               [] r.kind = "http" /\ IsConflict(r.code) ->
                    /\ log' = log \o call
                    /\ Goto("mongo_fetch")
                    /\ UNCHANGED <<mongo, orb_name>>
               [] r.kind = "http" /\ ~IsConflict(r.code) ->
                    /\ log' = log \o call
                    /\ Raise("HTTPError")
                    /\ UNCHANGED <<mongo, orb_name>>
               [] r.kind = "url" ->
                    /\ log' = log \o call
                    /\ Raise("URLError")
                    /\ UNCHANGED <<mongo, orb_name>>
    /\ UNCHANGED <<coreapp, disk, snapshot, args, loop, platform, orb_id, token,
                   cf_token>>
    /\ UNCHANGED files

\* the name the lookup returns for a 200 reply
FetchedNameIsOrbId(r) == "orb_id"

FetchedName(r) == r.name

\* return self.fetch_existing_orb_name(orb_id, cf_token)
FetchExistingOrbName ==
    /\ pc = "mongo_fetch"
    /\ \E r \in MongoDetailsReplies(orb_id) :
         LET req == <<HttpEv("GET details", r, 0, r.name)>>
         IN  CASE r.kind = "ok" /\ FetchedName(r) # NoName ->
                    /\ orb_name' = FetchedName(r)
                    /\ log' = log \o req \o <<Returned("register_orb_mongo", FetchedName(r))>>
                    /\ Return("register_orb_mongo")
               [] r.kind = "ok" /\ FetchedName(r) = NoName ->
                    /\ log' = log \o req
                    /\ Raise("ValueError")
                    /\ UNCHANGED orb_name
               [] r.kind = "http" ->
                    /\ log' = log \o req
                    /\ Raise("HTTPError")
                    /\ UNCHANGED orb_name
               [] r.kind = "url" ->
                    /\ log' = log \o req
                    /\ Raise("URLError")
                    /\ UNCHANGED orb_name
    /\ UNCHANGED <<backends, disk, snapshot, args, loop, platform, orb_id, token,
                   cf_token>>
    /\ UNCHANGED files

HttpError(r) == IF r.kind = "http" THEN "HTTPError" ELSE "URLError"

RequestFailedRetries(r) == pc' = pc /\ UNCHANGED <<status, err>>

\* urlopen raised: an HTTPError is logged and raised again, a URLError is not caught
RequestFailed(r) == Raise(HttpError(r))

ChannelAsRequested(backend, pf, requested) == requested

\* __init__: self.channel; "" when the constructor sets none
Channel(backend, pf, requested) ==
    IF backend = "stage"
    THEN IF pf = "pearl" THEN "internal-testing"
         ELSE IF pf = "diamond" THEN "dev_diamond_channel"
         ELSE ""
    ELSE IF backend = "prod"
    THEN IF pf = "diamond" /\ requested = "general" THEN "diamond-tier-ga"
         ELSE requested
    ELSE ""

\* self.channel of the run
channel == Channel(args.backend, args.platform, args.channel)

\* __init__ on the command line: else: raise ValueError("Invalid backend")
Construct ==
    /\ pc = "construct"
    /\ IF args.backend \in {"stage", "prod"}
       THEN Goto("cf_token")
       ELSE Raise("ValueError")
    /\ UNCHANGED <<backends, disk, snapshot, args, loop, locals, log>>
    /\ UNCHANGED files

\* set_orb_channel: data = {"channel": self.channel}
SetOrbChannel ==
    /\ pc = "set_channel"
    /\ \E r \in MongoChannelReplies :
         LET call == <<Ev("set_orb_channel", 0, "call"), HttpEv("POST channel", r, 0, channel)>>
         IN  IF r.kind = "ok"
             THEN /\ log' = log \o call \o <<Ev("set_orb_channel", 0, "return")>>
                  /\ Return("set_orb_channel")
             ELSE /\ log' = log \o call
                  /\ RequestFailed(r)
    /\ UNCHANGED <<backends, disk, snapshot, args, loop, locals>>
    /\ UNCHANGED files

\* get_orb_token
GetOrbToken ==
    /\ pc = "get_token"
    /\ \E r \in MongoTokenReplies :
         LET call == <<Ev("get_orb_token", 0, "call"), HttpEv("POST tokens", r, 0, NoName)>>
         IN  IF r.kind = "ok"
             THEN /\ token' = r.token
                  /\ log' = log \o call \o <<Returned("get_orb_token", r.token)>>
                  /\ Return("get_orb_token")
             ELSE /\ log' = log \o call
                  /\ RequestFailed(r)
                  /\ UNCHANGED token
    /\ UNCHANGED <<backends, disk, snapshot, args, loop, platform, orb_id, orb_name,
                   cf_token>>
    /\ UNCHANGED files

(***************************************************************************)
(* save_orb_artifacts                                                      *)
(***************************************************************************)
\* mkdir(exist_ok=True), move uid and uid.pub, write orb-name and token,
\* copy the two base images
SoaPrepare ==
    /\ pc = "soa_prepare"
    /\ artifacts' = [artifacts EXCEPT ![orb_id] =
                        [exists |-> TRUE, uid |-> build.uid, pub |-> build.pub,
                         name |-> orb_name, token |-> token, img |-> build.img]]
    /\ build' = [build EXCEPT !.uid = NoKey, !.pub = NoKey]
    /\ img' = 1
    /\ Logged("save_orb_artifacts", 0, "call")
    /\ Goto("soa_mount")
    /\ UNCHANGED <<backends, mounted, snapshot, args, i, step, pending, locals>>
    /\ UNCHANGED files

SoaImageInBuildDir(n) == BuildImg(n)

\* jet_artifacts_dir / img_name: the unit's copy of image n
SoaImage(n) == ArtifactImg(orb_id, n)

SoaMountFailedRunsFinally == Goto("soa_finally")

\* mount is invoked before the try statement: its CalledProcessError leaves
\* save_orb_artifacts without running the finally block
SoaMountFailed == Raise("CalledProcessError")

\* mount artifacts/<orb_id>/<image> <mount_point>, outside the try block
SoaMount ==
    /\ pc = "soa_mount"
    /\ \E ok \in BOOLEAN :
         /\ Logged("mount", img, ToolRes(ok))
         /\ IF ok
            THEN /\ mounted' = Append(mounted, SoaImage(img))
                 /\ step' = 1
                 /\ pending' = FALSE
                 /\ Goto("soa_try")
            ELSE /\ SoaMountFailed
                 /\ UNCHANGED <<mounted, step, pending>>
    /\ UNCHANGED <<backends, artifacts, build, snapshot, args, i, img, locals>>
    /\ UNCHANGED files

SoaStepFailedSkipsFinally ==
    /\ Raise("CalledProcessError")
    /\ pending' = TRUE

\* an exception inside the try block runs the finally block before it propagates
SoaStepFailed ==
    /\ Goto("soa_finally")
    /\ pending' = TRUE

SoaSourceTokenOnly(s) == artifacts[orb_id].token

\* the file install copies from artifacts/<orb_id>/
SoaSource(s) ==
    IF s.name = "orb-name" THEN artifacts[orb_id].name ELSE artifacts[orb_id].token

\* install orb-name, install token, sync
SoaTryStep ==
    /\ pc = "soa_try"
    /\ \E ok \in BOOLEAN :
         LET s == SoaTry[step]
         IN  /\ Logged(s.tool, img, ToolRes(ok))
             /\ IF ok
                THEN /\ OnMountPoint(s, SoaSource(s))
                     /\ pending' = pending
                     /\ IF step = Len(SoaTry)
                        THEN step' = step /\ Goto("soa_finally")
                        ELSE step' = step + 1 /\ Goto("soa_try")
                ELSE /\ SoaStepFailed
                     /\ UNCHANGED <<artifacts, build, step>>
    /\ UNCHANGED <<backends, mounted, snapshot, args, i, img, locals>>
    /\ UNCHANGED files

\* finally: umount <mount_point>, with check=True
SoaUmount ==
    /\ pc = "soa_finally"
    /\ \E ok \in BOOLEAN :
         IF ok
         THEN /\ UmountMountPoint
              /\ IF pending
                 THEN /\ Logged("umount", img, "ok")
                      /\ Raise("CalledProcessError")
                      /\ img' = img
                 ELSE IF img = Len(ImgNames)
                      THEN /\ log' = log \o << Ev("umount", img, "ok"),
                                               Ev("save_orb_artifacts", 0, "return") >>
                           /\ img' = img
                           /\ Return("save_orb_artifacts")
                      ELSE /\ Logged("umount", img, "ok")
                           /\ img' = img + 1
                           /\ Goto("soa_mount")
         ELSE /\ Logged("umount", img, "fail")
              /\ Raise("CalledProcessError")
              /\ UNCHANGED <<mounted, img>>
    /\ UNCHANGED <<backends, artifacts, build, snapshot, args, i, step, pending,
                   locals>>
    /\ UNCHANGED files

(***************************************************************************)
(* register_orb_core_app                                                   *)
(***************************************************************************)
AffectedRowsAtLeastOne(rows) == rows # 0

\* result.get("data", {}).get("insert_orb", {}).get("affected_rows") != 1 raises
AffectedRowsOk(rows) == rows = 1

RegisterOrbCoreApp ==
    /\ pc = "core_app"
    /\ \E r \in CoreAppReplies(orb_id) :
         LET call == <<Ev("register_orb_core_app", 0, "call"),
                       HttpEv("POST graphql", r, r.rows, orb_name)>>
         IN  /\ coreapp' = InsertOrb(orb_id, orb_name, r)
             /\ CASE r.kind = "ok" /\ AffectedRowsOk(r.rows) ->
                       /\ log' = log \o call \o <<Ev("register_orb_core_app", 0, "return")>>
                       /\ Return("register_orb_core_app")
                  [] r.kind = "ok" /\ ~AffectedRowsOk(r.rows) ->
                       /\ log' = log \o call
                       /\ Raise("ValueError")
                  [] r.kind # "ok" ->
                       /\ log' = log \o call
                       /\ RequestFailed(r)
    /\ UNCHANGED <<mongo, disk, snapshot, args, loop, locals>>
    /\ UNCHANGED files

AfterReportRebuilds == "cpi_write"

\* for i in range(self.args.count): the next iteration calls process_pearl_orb
AfterReportPearl == "unit"

\* "Successfully processed ...": the unit is done and the loop moves on
ReportUnit ==
    /\ pc = "report"
    /\ Logged("processed", 0, "ok")
    /\ i' = i + 1
    /\ orb_id' = NoId
    /\ orb_name' = NoName
    /\ token' = NoToken
    /\ Goto(IF args.platform = "pearl" THEN AfterReportPearl
            ELSE IF PairsMode THEN "pairs" ELSE "batch")
    /\ UNCHANGED <<backends, disk, snapshot, args, img, step, pending, platform,
                   cf_token>>
    /\ UNCHANGED files

(***************************************************************************)
(* check_orb_id_format                                                     *)
(***************************************************************************)
UpperChars == {"A", "B", "C", "D", "E", "F"}
LowerChars == {"a", "b", "c", "d", "e", "f"}

\* str.lower() on one character
LowerChar(c) ==
    CASE c = "A" -> "a" [] c = "B" -> "b" [] c = "C" -> "c"
      [] c = "D" -> "d" [] c = "E" -> "e" [] c = "F" -> "f"
      [] OTHER -> c

\* str.islower(): some cased character, and no cased character in upper case
islower(str) ==
    /\ \E k \in 1..Len(str) : str[k] \in LowerChars
    /\ \A k \in 1..Len(str) : str[k] \notin UpperChars

lower(str) == [k \in 1..Len(str) |-> LowerChar(str[k])]

zfillRight(str, width) ==
    IF Len(str) >= width
    THEN str
    ELSE str \o [k \in 1..(width - Len(str)) |-> "0"]

\* str.zfill(width): zeros on the left, after a leading sign
zfill(str, width) ==
    IF Len(str) >= width
    THEN str
    ELSE LET zeros == [k \in 1..(width - Len(str)) |-> "0"]
         IN  IF str # <<>> /\ str[1] \in {"+", "-"}
             THEN <<str[1]>> \o zeros \o Tail(str)
             ELSE zeros \o str

\* the identity returned, or NoId for the ValueError
check_orb_id_format(raw) ==
    LET lowered == IF ~islower(raw) THEN lower(raw) ELSE raw
    IN  IF Len(lowered) < IdLen THEN zfill(lowered, IdLen)
        ELSE IF Len(lowered) > IdLen THEN NoId
        ELSE lowered

\* the identities a batch input may hold
RawIds ==
    { <<"2", "a">>,
      Str_0000002a,
      <<"A", "B", "C", "D", "E", "F", "1", "2">>,
      <<"a", "b", "c", "d", "e", "f", "1", "2", "3">> }

(***************************************************************************)
(* process_diamond_orb_ids                                                 *)
(***************************************************************************)
InvalidOrbIdSkipped == Goto("report")

\* check_orb_id_format raised in the loop: the ValueError leaves the loop and run
InvalidOrbId == Raise("ValueError")

CheckOrbIdFormat ==
    /\ pc = "batch"
    /\ i <= Len(args.orb_ids)
    /\ LET id == check_orb_id_format(args.orb_ids[i])
       IN  /\ Logged("check_orb_id_format", 0, IF id = NoId THEN "fail" ELSE "ok")
           /\ IF id = NoId
              THEN /\ InvalidOrbId
                   /\ UNCHANGED orb_id
              ELSE /\ orb_id' = id
                   /\ Return("check_orb_id_format")
    /\ UNCHANGED <<backends, disk, snapshot, args, loop, platform, orb_name, token,
                   cf_token>>
    /\ UNCHANGED files

\* the loop over orb_ids ends, and run returns
BatchDone ==
    /\ pc = "batch"
    /\ i > Len(args.orb_ids)
    /\ RunReturns
    /\ Logged("all_done", 0, "ok")
    /\ UNCHANGED <<backends, disk, snapshot, args, loop, locals, err>>
    /\ UNCHANGED files

(***************************************************************************)
(* read_input_pairs_file.  A line of the input file is the sequence of its *)
(* maximal runs of non-whitespace characters (its fields) and the          *)
(* whitespace characters between and around them; the file is the          *)
(* sequence of its lines.                                                  *)
(***************************************************************************)
\* the identities a pairs file may hold, as they are written in the file
IdWords == {"2a", "0000002a", "ABCDEF12", "abcdef123"}

\* the characters of a field
Chars(w) ==
    CASE w = "2a" -> <<"2", "a">>
      [] w = "0000002a" -> Str_0000002a
      [] w = "ABCDEF12" -> <<"A", "B", "C", "D", "E", "F", "1", "2">>
      [] w = "abcdef123" -> <<"a", "b", "c", "d", "e", "f", "1", "2", "3">>

\* the names a pairs file gives
PairNames == {"TestOrb", "OtherOrb"}

\* the lines of a pairs file: identity, blank, name; the same with leading,
\* doubled and trailing whitespace; an empty line and a line of whitespace;
\* a line of one field and a line of three
InputLines ==
    {<<w, " ", nm>> : w \in IdWords, nm \in PairNames}
    \cup { <<" ", "0000002a", " ", " ", "TestOrb", "\t">>,
           <<>>,
           <<" ", "\t">>,
           <<"0000002a">>,
           <<"0000002a", " ", "TestOrb", " ", "extra">> }

\* the contents of the file named by --input-file
InputFiles == UNION {[1..k -> InputLines] : k \in 1..MaxBatch}

isspace(c) == c \in {" ", "\t"}

\* str.strip(): without leading and trailing whitespace
RECURSIVE strip(_)
strip(line) ==
    IF line = <<>> THEN line
    ELSE IF isspace(Head(line)) THEN strip(Tail(line))
    ELSE IF isspace(line[Len(line)]) THEN strip(SubSeq(line, 1, Len(line) - 1))
    ELSE line

\* str.split(): the fields, in order
split(line) == SelectSeq(line, LAMBDA c : ~isspace(c))

\* the list of pairs returned, or the ValueError
ParseError == [ok |-> FALSE, pairs |-> <<>>]

RECURSIVE ReadLines(_, _)

InvalidLineSkipped(lines, pairs) == ReadLines(Tail(lines), pairs)

\* if len(parts) != 2: raise ValueError
InvalidLine(lines, pairs) == ParseError

\* for line in f: the lines still to read, and the pairs read so far
ReadLines(lines, pairs) ==
    IF lines = <<>>
    THEN [ok |-> TRUE, pairs |-> pairs]
    ELSE LET line == strip(Head(lines))
         IN  IF line = <<>>
             THEN ReadLines(Tail(lines), pairs)
             ELSE LET parts == split(line)
                  IN  IF Len(parts) # 2
                      THEN InvalidLine(lines, pairs)
                      ELSE ReadLines(Tail(lines),
                                     Append(pairs, [id |-> Chars(parts[1]),
                                                    name |-> parts[2]]))

read_input_pairs_file(file) == ReadLines(file, <<>>)

\* orb_pairs = self.read_input_pairs_file(self.args.input_file)
orb_pairs == read_input_pairs_file(args.file).pairs

\* run reads the pairs file before it processes any pair
ReadInputPairsFile ==
    /\ pc = "read_pairs"
    /\ LET result == read_input_pairs_file(args.file)
       IN  /\ Logged("read_input_pairs_file", 0, ToolRes(result.ok))
           /\ IF result.ok
              THEN /\ i' = 1
                   /\ Goto("pairs")
              ELSE /\ i' = i
                   /\ Raise("ValueError")
    /\ UNCHANGED <<backends, disk, snapshot, args, img, step, pending, locals>>
    /\ UNCHANGED files

(***************************************************************************)
(* process_diamond_orb_pairs                                               *)
(***************************************************************************)
\* for orb_id, orb_name in orb_pairs: the name of the pair
PairName(p) == p.name

CheckOrbIdFormatPair ==
    /\ pc = "pairs"
    /\ i <= Len(orb_pairs)
    /\ LET id == check_orb_id_format(orb_pairs[i].id)
       IN  /\ Logged("check_orb_id_format", 0, IF id = NoId THEN "fail" ELSE "ok")
           /\ IF id = NoId
              THEN /\ InvalidOrbId
                   /\ UNCHANGED <<orb_id, orb_name>>
              ELSE /\ orb_id' = id
                   /\ orb_name' = PairName(orb_pairs[i])
                   /\ Return("check_orb_id_format")
    /\ UNCHANGED <<backends, disk, snapshot, args, loop, platform, token, cf_token>>
    /\ UNCHANGED files

\* the loop over orb_pairs ends, and run returns
PairsDone ==
    /\ pc = "pairs"
    /\ i > Len(orb_pairs)
    /\ RunReturns
    /\ Logged("all_done", 0, "ok")
    /\ UNCHANGED <<backends, disk, snapshot, args, loop, locals, err>>
    /\ UNCHANGED files

(***************************************************************************)
(* The command lines, the first state of a run, and the next run.          *)
(***************************************************************************)
PearlArgs ==
    [platform : {"pearl"}, backend : {"stage"}, channel : {"general"},
     hardware_version : HwVersions, count : 0..MaxCount,
     input_file : {FALSE}, input_format : {"ids"}, orb_ids : {<<>>},
     file : {<<>>}]

SeqsUpTo(S, n) == UNION {[1..k -> S] : k \in 1..n}

DiamondIdsArgs ==
    [platform : {"diamond"}, backend : {"stage"}, channel : {"general"},
     hardware_version : HwVersions, count : {1},
     input_file : {FALSE}, input_format : {"ids"},
     orb_ids : SeqsUpTo(RawIds, MaxBatch), file : {<<>>}]

\* --platform diamond --input-file F --input-format pairs
DiamondPairsArgs ==
    [platform : {"diamond"}, backend : {"stage"}, channel : {"general"},
     hardware_version : HwVersions, count : {1},
     input_file : {TRUE}, input_format : {"pairs"}, orb_ids : {<<>>},
     file : InputFiles]

\* OrbRegistration(args), before run
Constructed(a) ==
    /\ args = a
    /\ pc = "cf_token"
    /\ i = 0
    /\ img = 0
    /\ step = 0
    /\ pending = FALSE
    /\ platform = ""
    /\ orb_id = NoId
    /\ orb_name = NoName
    /\ token = NoToken
    /\ cf_token = NoCfToken
    /\ status = "running"
    /\ err = ""
    /\ log = <<>>
    /\ mounted = <<>>

\* orb-registration.py reads and writes none of the files of the other tools
NoFiles == <<>>

FreshWorld ==
    /\ mongo = [id \in Ids |-> NoName]
    /\ coreapp = [id \in Ids |-> NoName]
    /\ artifacts = [id \in Ids |-> NoDir]
    /\ build = [uid |-> NoKey, pub |-> NoKey, img |-> <<NoImage, NoImage>>]
    /\ mongo0 = mongo
    /\ core0 = coreapp
    /\ files = NoFiles

\* the channels --channel may name
RequestedChannels == {"general", "jabil-evt"}

\* command lines over every backend, platform and requested channel; "dev"
\* stands for a backend that is neither stage nor prod
ChannelArgs ==
    [platform : {"pearl"}, backend : {"stage", "prod", "dev"},
     channel : RequestedChannels, hardware_version : {Hw("PEARL_", "EVT1")},
     count : {1}, input_file : {FALSE}, input_format : {"ids"}, orb_ids : {<<>>},
     file : {<<>>}]
    \cup
    [platform : {"diamond"}, backend : {"stage", "prod", "dev"},
     channel : RequestedChannels, hardware_version : {Hw("DIAMOND_", "EVT2")},
     count : {1}, input_file : {FALSE}, input_format : {"ids"},
     orb_ids : {<< <<"2", "a">>, Str_0000002a >>, << Str_abcdef12 >>},
     file : {<<>>}]

\* main has parsed the command line and is about to call OrbRegistration(args)
InitChannel ==
    /\ FreshWorld
    /\ args \in ChannelArgs
    /\ pc = "construct"
    /\ i = 0
    /\ img = 0
    /\ step = 0
    /\ pending = FALSE
    /\ platform = ""
    /\ orb_id = NoId
    /\ orb_name = NoName
    /\ token = NoToken
    /\ cf_token = NoCfToken
    /\ status = "running"
    /\ err = ""
    /\ log = <<>>
    /\ mounted = <<>>

InitPearl == FreshWorld /\ \E a \in PearlArgs : Constructed(a)

InitBatch == FreshWorld /\ \E a \in DiamondIdsArgs : Constructed(a)

\* raw identities: a prefix over these characters, then a run of "1"
NormChars == {"0", "a", "F", "-", "+"}

Ones(k) == [j \in 1..k |-> "1"]

RawInputs ==
    {h \o Ones(k) : h \in {<<>>} \cup SeqsUpTo(NormChars, MaxHead), k \in 0..(IdLen + 1)}

\* process_diamond_orb_ids about to normalize its one identity
InitNormalize ==
    /\ FreshWorld
    /\ \E raw \in RawInputs :
         args = [platform |-> "diamond", backend |-> "stage", channel |-> "general",
                 hardware_version |-> Hw("DIAMOND_", "EVT2"),
                 count |-> 1, input_file |-> FALSE, input_format |-> "ids",
                 orb_ids |-> <<raw>>, file |-> <<>>]
    /\ pc = "batch"
    /\ i = 1
    /\ img = 0
    /\ step = 0
    /\ pending = FALSE
    /\ platform = "diamond"
    /\ orb_id = NoId
    /\ orb_name = NoName
    /\ token = NoToken
    /\ cf_token \in CfTokens
    /\ status = "running"
    /\ err = ""
    /\ log = <<>>
    /\ mounted = <<>>

InitPairs == FreshWorld /\ \E a \in DiamondPairsArgs : Constructed(a)

\* sys.exit: the process and its temporary mount point are gone; the backends,
\* build/ and artifacts/ stay
ProcessExit ==
    /\ pc = "exit"
    /\ pc' = "idle"
    /\ args' = [args EXCEPT !.orb_ids = <<>>, !.file = <<>>]
    /\ i' = 0
    /\ img' = 0
    /\ step' = 0
    /\ pending' = FALSE
    /\ platform' = ""
    /\ orb_id' = NoId
    /\ orb_name' = NoName
    /\ token' = NoToken
    /\ cf_token' = NoCfToken
    /\ status' = "exited"
    /\ err' = ""
    /\ log' = <<>>
    /\ mounted' = <<>>
    /\ mongo0' = mongo
    /\ core0' = coreapp
    /\ UNCHANGED <<backends, artifacts, build>>
    /\ UNCHANGED files

\* the script is started again on the same backends
NewBatchRun ==
    /\ pc = "idle"
    /\ args' \in DiamondIdsArgs
    /\ pc' = "cf_token"
    /\ status' = "running"
    /\ UNCHANGED <<backends, disk, snapshot, loop, locals, err, log>>
    /\ UNCHANGED files

\* the script is started again on a pairs file
NewPairsRun ==
    /\ pc = "idle"
    /\ args' \in DiamondPairsArgs
    /\ pc' = "cf_token"
    /\ status' = "running"
    /\ UNCHANGED <<backends, disk, snapshot, loop, locals, err, log>>
    /\ UNCHANGED files

NextPearl ==
    \/ GetCloudflaredToken
    \/ CpiWriteImages
    \/ CpiPrepStep
    \/ CpiMount
    \/ CpiTryStep
    \/ CpiUmount
    \/ GenerateOrbId
    \/ AllUnitsDone
    \/ DetectPlatform
    \/ RegisterOrbMongo
    \/ FetchExistingOrbName
    \/ SetOrbChannel
    \/ GetOrbToken
    \/ SoaPrepare
    \/ SoaMount
    \/ SoaTryStep
    \/ SoaUmount
    \/ RegisterOrbCoreApp
    \/ ReportUnit

NextBatch ==
    \/ GetCloudflaredToken
    \/ DetectPlatform
    \/ CheckOrbIdFormat
    \/ RegisterOrbMongo
    \/ FetchExistingOrbName
    \/ RegisterOrbCoreApp
    \/ ReportUnit
    \/ BatchDone
    \/ ProcessExit
    \/ NewBatchRun

NextPairs ==
    \/ GetCloudflaredToken
    \/ ReadInputPairsFile
    \/ CheckOrbIdFormatPair
    \/ RegisterOrbCoreApp
    \/ ReportUnit
    \/ PairsDone
    \/ ProcessExit
    \/ NewPairsRun

NextNormalize == CheckOrbIdFormat

NextChannel ==
    \/ Construct
    \/ NextPearl
    \/ CheckOrbIdFormat
    \/ BatchDone

\* an interactive run: --platform pearl --count N
SpecPearl == InitPearl /\ [][NextPearl]_vars

\* batch runs, one after another: --platform diamond <orb ids>
SpecBatch == InitBatch /\ [][NextBatch]_vars

\* check_orb_id_format applied to one raw identity
SpecNormalize == InitNormalize /\ [][NextNormalize]_vars

\* the constructor and one run, over every backend, platform and channel
SpecChannel == InitChannel /\ [][NextChannel]_vars

\* batch runs over pairs files: --platform diamond --input-file F --input-format pairs
SpecPairs == InitPairs /\ [][NextPairs]_vars

(***************************************************************************)
(* update-agent-loader/sign.py.  A byte is an integer in 0..255 and a file *)
(* is the sequence of its bytes.  The tool reads the key and the input     *)
(* binary, strips a signature trailer it recognises, signs what is left    *)
(* and writes payload, signature, signature length and tag.                *)
(***************************************************************************)
\* b"$WLD TO THE MOON"
WLD_TAG == <<36, 87, 76, 68, 32, 84, 79, 32, 84, 72, 69, 32, 77, 79, 79, 78>>

TAG_LEN == Len(WLD_TAG)

SIG_LEN_SIZE == 4

\* int.to_bytes(size, "little"): the least significant byte first
to_bytes_little(n, size) == [k \in 1..size |-> (n \div (256 ^ (k - 1))) % 256]

RECURSIVE from_bytes_big(_)
\* int.from_bytes(b, "big")
from_bytes_big(b) ==
    IF Len(b) = 0 THEN 0
    ELSE 256 * from_bytes_big(SubSeq(b, 1, Len(b) - 1)) + b[Len(b)]

read_and_strip_existing_signature(data) ==
    IF Len(data) < TAG_LEN + SIG_LEN_SIZE
    THEN [data |-> data, signed |-> FALSE]
    ELSE IF SubSeq(data, Len(data) - TAG_LEN + 1, Len(data)) # WLD_TAG
    THEN [data |-> data, signed |-> FALSE]
    ELSE LET sig_len_bytes ==
                 SubSeq(data, Len(data) - (TAG_LEN + SIG_LEN_SIZE) + 1,
                        Len(data) - TAG_LEN)
             sig_len == from_bytes_big(sig_len_bytes)
             expected_total == Len(data) - TAG_LEN - SIG_LEN_SIZE - sig_len
         IN  IF expected_total < 0
             THEN [data |-> data, signed |-> FALSE]
             ELSE [data |-> SubSeq(data, 1, expected_total), signed |-> TRUE]

RECURSIVE ByteSum(_)
ByteSum(b) == IF Len(b) = 0 THEN 0 ELSE b[1] + ByteSum(Tail(b))

\* an Ed25519 signature is R and S, 32 bytes each
Ed25519SigLen == 2 * 32

\* private_key.sign(original_data): 64 bytes fixed by the key and the data
Ed25519Sign(key, data) ==
    [k \in 1..Ed25519SigLen |->
        (ByteSum(key) + 3 * ByteSum(data) + Len(data) + k) % 256]

\* what main writes for the payload: payload, signature, length, tag
SignedFile(key, original_data) ==
    LET signature == Ed25519Sign(key, original_data)
        sig_len == Len(signature)
    IN  original_data \o signature \o to_bytes_little(sig_len, 4) \o WLD_TAG

\* a file that is not there, and a file with these bytes
Absent == [exists |-> FALSE, data |-> <<>>]
Bytes(d) == [exists |-> TRUE, data |-> d]

MaxPayload == 2
MaxSignings == 2

\* payloads over the bytes zero, "@" (64), the last byte of the tag and 0xff
Payloads == UNION {[1..k -> {0, 64, 78, 255}] : k \in 0..MaxPayload}

\* input binaries: a payload, or a payload followed by a trailer whose
\* length field holds 64 with the most significant byte first
InputBinaries ==
    Payloads \cup
    {x \o Ed25519Sign([k \in 1..32 |-> 7], x) \o <<0, 0, 0, 64>> \o WLD_TAG :
       x \in Payloads}

InitSign ==
    /\ mongo = [id \in Ids |-> NoName]
    /\ coreapp = [id \in Ids |-> NoName]
    /\ artifacts = [id \in Ids |-> NoDir]
    /\ build = [uid |-> NoKey, pub |-> NoKey, img |-> <<NoImage, NoImage>>]
    /\ mongo0 = mongo
    /\ core0 = coreapp
    /\ mounted = <<>>
    /\ i = 0
    /\ img = 0
    /\ step = 0
    /\ pending = FALSE
    /\ platform = ""
    /\ orb_id = NoId
    /\ orb_name = NoName
    /\ token = NoToken
    /\ cf_token = NoCfToken
    /\ status = "running"
    /\ err = ""
    /\ log = <<>>
    /\ pc = "sign_main"
    /\ args \in [clobber : BOOLEAN]
    \* the raw key file holds 32 bytes, or is one byte short
    /\ \E key \in {[k \in 1..32 |-> 7], [k \in 1..31 |-> 7]}, data \in InputBinaries :
         files = [raw_private_key |-> Bytes(key), input_binary |-> Bytes(data),
                  output_file |-> Absent]

\* main of sign.py, from the parsed arguments to the exit
SignMain ==
    /\ pc = "sign_main"
    /\ LET raw_key == files.raw_private_key.data
           data == files.input_binary.data
           r == read_and_strip_existing_signature(data)
           original_data == r.data
           already_signed == r.signed
       IN  IF Len(raw_key) # 32
           THEN /\ Raise("ValueError")
                /\ Logged("sign", 0, "fail")
                /\ files' = files
           ELSE IF already_signed /\ ~args.clobber
           THEN /\ Raise("SystemExit")
                /\ Logged("sign", 0, "fail")
                /\ files' = files
           ELSE /\ pc' = "exit"
                /\ status' = "success"
                /\ err' = err
                /\ Logged("sign", 0, "ok")
                /\ files' = [files EXCEPT
                               !.output_file = Bytes(SignedFile(raw_key, original_data))]
    /\ UNCHANGED <<backends, disk, snapshot, args, loop, locals>>

\* the signed output is given to the tool again as its input
SignOutputAgain ==
    /\ pc = "exit"
    /\ status = "success"
    /\ Len(log) < MaxSignings
    /\ \E c \in BOOLEAN : args' = [args EXCEPT !.clobber = c]
    /\ files' = [files EXCEPT !.input_binary = files.output_file,
                              !.output_file = Absent]
    /\ pc' = "sign_main"
    /\ status' = "running"
    /\ err' = err
    /\ UNCHANGED <<backends, disk, snapshot, loop, locals, log>>

NextSign == SignMain \/ SignOutputAgain

\* runs of sign.py, each on the output of the run before
SpecSign == InitSign /\ [][NextSign]_vars

(***************************************************************************)
(* update-agent/tools/generate_local_mcu_update.py.  The tool takes the    *)
(* paths of the main and the security MCU binary, the versions file and    *)
(* the current slot, compresses each binary it finds with xz and writes    *)
(* the update claim with one manifest component per source to              *)
(* response.json.  An option that was not given is None.                   *)
(***************************************************************************)
None == "None"

\* the two microcontrollers, in the order of the loop
Mcus == <<"mainboard", "security">>

\* 0x3D 0xB8, then the version at offsets 20, 21 and 22
McuImage(major, minor, patch) ==
    <<61, 184>> \o [k \in 1..18 |-> 0] \o <<major, minor, patch>>

\* binaries: empty, one byte, the magic alone, an image without the magic,
\* and two images with a version
McuBinaries ==
    {<<>>, <<61>>, <<61, 184>>, [k \in 1..23 |-> 255],
     McuImage(1, 2, 3), McuImage(2, 0, 0)}

\* versions files: not there, not JSON, without the slot, with its versions
VersionsFiles ==
    {v \in [exists : BOOLEAN,
            data : [json : BOOLEAN, slot : {None, "a", "b"},
                    mcu : {[mainboard |-> "1.0.0", security |-> "1.1.0"]}]] :
       ~(v.exists /\ v.data.json) => v.data.slot = None}

\* sys.argv: no argument at all, or the options that were given
McuArgs ==
    [argc : {1, 2},
     getopt_error : BOOLEAN,
     main_app_update_path : {None, "main.bin"},
     sec_app_update_path : {None, "security.bin"},
     versions_path : {"versions.json"},
     current_slot : {None, "a"}]

\* the path an option of the command line names for this microcontroller
PathOf(mcu) ==
    IF mcu = "mainboard" THEN args.main_app_update_path ELSE args.sec_app_update_path

\* the binary at the path of this microcontroller
BinaryOf(f, mcu) == IF mcu = "mainboard" THEN f.main_bin ELSE f.sec_bin

\* path is not None and not os.path.exists(path)
SuppliedAndMissing(mcu) == PathOf(mcu) # None /\ ~BinaryOf(files, mcu).exists


\* the test of the wrong path: both clauses joined by "and"
WrongPath == SuppliedAndMissing("mainboard") /\ SuppliedAndMissing("security")

\* path is not None and os.path.exists(path)
InSources(mcu) == PathOf(mcu) # None /\ BinaryOf(files, mcu).exists

\* byte_block[0], byte_block[1], byte_block[20..22]: an index past the end
\* raises IndexError
VersionRaises(b) ==
    /\ Len(b) > 0
    /\ \/ Len(b) < 2
       \/ b[1] = 61 /\ b[2] = 184 /\ Len(b) < 23

VersionIn(b) ==
    IF Len(b) > 0 /\ b[1] = 61 /\ b[2] = 184
    THEN <<b[21], b[22], b[23]>>
    ELSE None

\* hashlib.sha256 of the bytes read
McuDigest(b) == <<Len(b), ByteSum(b) % 256>>

VersionAssert(versions, mcu) ==
    IF versions.slot # args.current_slot THEN ""
    ELSE IF mcu = "mainboard" THEN versions.mcu.mainboard ELSE versions.mcu.security

Component(versions, mcu) ==
    LET b == BinaryOf(files, mcu).data
    IN  [name |-> mcu,
         version_assert |-> VersionAssert(versions, mcu),
         version |-> VersionIn(b),
         size |-> Len(b),
         installation_phase |-> "normal",
         hash |-> McuDigest(b)]

\* xz -zkf: the stream header, then the compressed bytes
Xz(b) == Bytes(<<253, 55, 122, 88, 90, 0>> \o b)

\* the loop over the microcontrollers from position k, with the components
\* so far and the outcome of xz for each: it ends with the manifest
\* components, or with the exception of the first step that raised
RECURSIVE McuLoop(_, _, _, _, _)
McuLoop(k, versions, xz_ok, comps, f) ==
    IF k > Len(Mcus) THEN [err |-> "", components |-> comps, files |-> f]
    ELSE LET mcu == Mcus[k]
             b == BinaryOf(f, mcu).data
             g == IF ~xz_ok[k] THEN f
                  ELSE IF mcu = "mainboard"
                       THEN [f EXCEPT !.main_xz = Xz(b)]
                       ELSE [f EXCEPT !.sec_xz = Xz(b)]
         IN  IF ~InSources(mcu) THEN McuLoop(k + 1, versions, xz_ok, comps, f)
             ELSE IF VersionRaises(b)
             THEN [err |-> "IndexError", components |-> comps, files |-> f]
             ELSE IF ~(IF mcu = "mainboard" THEN g.main_xz ELSE g.sec_xz).exists
             THEN [err |-> "FileNotFoundError", components |-> comps, files |-> g]
             ELSE McuLoop(k + 1, versions, xz_ok,
                          Append(comps, Component(versions, mcu)), g)

\* json.dumps(update) written to response.json
Response(components) ==
    [exists |-> TRUE,
     data |-> [update |-> TRUE, version |-> "dirty",
               sources |-> {components[k].name : k \in 1..Len(components)},
               manifest |-> [magic |-> "W0r1dC01n", type |-> "normal",
                             components |-> components]]]

InitMcu ==
    /\ mongo = [id \in Ids |-> NoName]
    /\ coreapp = [id \in Ids |-> NoName]
    /\ artifacts = [id \in Ids |-> NoDir]
    /\ build = [uid |-> NoKey, pub |-> NoKey, img |-> <<NoImage, NoImage>>]
    /\ mongo0 = mongo
    /\ core0 = coreapp
    /\ mounted = <<>>
    /\ i = 0
    /\ img = 0
    /\ step = 0
    /\ pending = FALSE
    /\ platform = ""
    /\ orb_id = NoId
    /\ orb_name = NoName
    /\ token = NoToken
    /\ cf_token = NoCfToken
    /\ status = "running"
    /\ err = ""
    /\ log = <<>>
    /\ pc = "mcu_main"
    /\ args \in {a \in McuArgs :
                   a.argc = 1 =>
                      /\ ~a.getopt_error
                      /\ a.main_app_update_path = None
                      /\ a.sec_app_update_path = None
                      /\ a.current_slot = None}
    /\ \E m, s \in {Absent} \cup {Bytes(b) : b \in McuBinaries}, v \in VersionsFiles :
         files = [main_bin |-> m, sec_bin |-> s, versions |-> v,
                  main_xz |-> Absent, sec_xz |-> Absent, response |-> Absent]

\* main of generate_local_mcu_update.py, from sys.argv to the exit
McuMain ==
    /\ pc = "mcu_main"
    /\ \E xz_ok \in [1..Len(Mcus) -> BOOLEAN] :
         IF args.argc < 2
         THEN \* print(help); quit()
              /\ pc' = "exit" /\ status' = "success" /\ err' = err
              /\ Logged("mcu", 0, "help")
              /\ files' = files
         ELSE IF \/ args.getopt_error
                 \/ args.current_slot = None
                 \/ args.main_app_update_path = None /\ args.sec_app_update_path = None
                 \/ WrongPath
                 \/ ~files.versions.exists
                 \/ ~files.versions.data.json
         THEN \* exit(1)
              /\ Raise("SystemExit")
              /\ Logged("mcu", 0, "fail")
              /\ files' = files
         ELSE LET r == McuLoop(1, files.versions.data, xz_ok, <<>>, files)
              IN  IF r.err # ""
                  THEN /\ Raise(r.err)
                       /\ Logged("mcu", Len(r.components), "fail")
                       /\ files' = r.files
                  ELSE /\ pc' = "exit" /\ status' = "success" /\ err' = err
                       /\ Logged("mcu", Len(r.components), "ok")
                       /\ files' = [r.files EXCEPT
                                      !.response = Response(r.components)]
    /\ UNCHANGED <<backends, disk, snapshot, args, loop, locals>>

NextMcu == McuMain

\* one run of generate_local_mcu_update.py over every command line and
\* every state of the files it reads
SpecMcu == InitMcu /\ [][NextMcu]_vars

(***************************************************************************)
(* Properties.  The log holds every tool invocation and HTTP request of    *)
(* the run with its outcome, and the call and return of the operations of  *)
(* a unit, so an order of operations is a property of the log.             *)
(***************************************************************************)
Events == {log[k] : k \in 1..Len(log)}

\* the number of events of the log that satisfy T
CountEv(T(_)) == Len(SelectSeq(log, T))

\* the operations of a unit that the interactive flow is to perform, in order
UnitOperations ==
    << "register_orb_mongo", "set_orb_channel", "get_orb_token",
       "save_orb_artifacts", "register_orb_core_app" >>

\* the calls and returns of unit u's operations, as they happened
UnitOps(u) ==
    LET T(e) == /\ e.unit = u
                /\ e.res \in {"call", "return"}
                /\ e.op \in {UnitOperations[k] : k \in 1..Len(UnitOperations)}
    IN  SelectSeq(log, T)

\* each operation called once, in order, each returned before the next is called
OpsInOrder(u, id) ==
    LET ops == UnitOps(u)
    IN  /\ Len(ops) = 2 * Len(UnitOperations)
        /\ \A k \in 1..Len(ops) :
             /\ ops[k].op = UnitOperations[(k + 1) \div 2]
             /\ ops[k].res = (IF k % 2 = 1 THEN "call" ELSE "return")
             /\ ops[k].id = id

(* C1: in the interactive flow, every unit reported as successfully        *)
(* processed has had create, set-channel, issue-token, personalize-image   *)
(* and inventory-register called exactly once each for its identity, in    *)
(* that order, each one only after the one before it returned.             *)
C1_OperationsInOrder ==
    \A k \in 1..Len(log) :
        log[k].op = "processed" => OpsInOrder(log[k].unit, log[k].id)

\* a run of two units, both reported as processed
C1_Witness ==
    /\ status = "success"
    /\ args.count = 2
    /\ \E e \in Events : e.unit = 1 /\ e.op = "processed"
    /\ \E e \in Events : e.unit = 2 /\ e.op = "processed"

\* a unit with identity id was reported as processed
Processed(id) == \E e \in Events : e.op = "processed" /\ e.id = id

\* operation op of unit u returned
ReturnedIn(u, op) ==
    \E k \in 1..Len(log) : log[k].unit = u /\ log[k].op = op /\ log[k].res = "return"

\* a unit with identity id got its record, its channel and its token
TokenIssued(id) ==
    \E e \in Events :
        /\ e.op = "save_orb_artifacts" /\ e.res = "call" /\ e.id = id
        /\ ReturnedIn(e.unit, "register_orb_mongo")
        /\ ReturnedIn(e.unit, "set_orb_channel")
        /\ ReturnedIn(e.unit, "get_orb_token")

Fault(e) ==
    \/ e.res = "fail" /\ e.op \notin {"check_orb_id_format", "detect_platform"}
    \/ e.res = "url"
    \/ e.res = "http" /\ e.code # 409
    \/ e.op = "POST graphql" /\ e.res = "ok" /\ e.n \notin {0, 1}
    \/ e.op = "GET details" /\ e.res = "ok" /\ e.name = NoName

\* the identities of the batch input, normalized
InputIds == {check_orb_id_format(args.orb_ids[k]) : k \in 1..Len(args.orb_ids)}

\* a batch run over valid identities that earlier runs registered in both backends
Rerun ==
    /\ args.platform = "diamond"
    /\ detect_platform(args.hardware_version) # ""
    /\ NoId \notin InputIds
    /\ \A id \in InputIds : mongo0[id] # NoName /\ core0[id] # NoName

(* C3 as stated: re-running the identity-only batch over identities that   *)
(* an earlier run registered in both backends, with every tool and both    *)
(* backends working, ends in success for every identity, creates no        *)
(* management record, returns the display names of the first run and       *)
(* leaves one management and one inventory record per identity.            *)
C3_RerunReachesDone ==
    (Rerun /\ pc = "exit" /\ \A e \in Events : ~Fault(e)) =>
        /\ status = "success"
        /\ \A id \in InputIds : Processed(id)
        /\ mongo = mongo0
        /\ coreapp = core0
        /\ \A e \in Events :
             /\ e.op = "POST orbs" => e.res # "ok"
             /\ (e.op = "register_orb_mongo" /\ e.res = "return") => e.name = mongo0[e.id]

(* C4: register_orb_mongo answers a 409 on create with a lookup of the     *)
(* same identity and returns the name of the existing record; any other    *)
(* failure of the create request ends the run, with no lookup.             *)
C4_ConflictResolved ==
    \A k \in 1..Len(log) :
        log[k].op = "POST orbs" =>
            LET e == log[k]
            IN  /\ (e.res = "http" /\ e.code = 409) =>
                      IF k = Len(log)
                      THEN pc = "mongo_fetch" /\ status = "running"
                      ELSE /\ log[k + 1].op = "GET details"
                           /\ log[k + 1].id = e.id
                           /\ (log[k + 1].res = "ok" /\ log[k + 1].name # NoName) =>
                                 /\ k + 2 <= Len(log)
                                 /\ log[k + 2].op = "register_orb_mongo"
                                 /\ log[k + 2].res = "return"
                                 /\ log[k + 2].name = mongo[e.id]
                /\ (e.res = "url" \/ (e.res = "http" /\ e.code # 409)) =>
                      /\ k = Len(log)
                      /\ pc = "exit"
                      /\ status = "aborted"
                      /\ err = (IF e.res = "url" THEN "URLError" ELSE "HTTPError")

\* a create answered with 409, the lookup, and the existing name returned
C4_Witness ==
    \E k \in 1..Len(log) :
        /\ log[k].op = "POST orbs" /\ log[k].code = 409
        /\ k + 2 <= Len(log)
        /\ log[k + 2].op = "register_orb_mongo"
        /\ log[k + 2].res = "return"
        /\ log[k + 2].name = mongo[log[k].id]

IsMongoReturn(e) == e.op = "register_orb_mongo" /\ e.res = "return"

(* C5: two calls of register_orb_mongo for the same identity return the    *)
(* same display name, the name of the one record the Management API holds  *)
(* for it, and no record is created between the two returns; a call for an *)
(* identity registered by an earlier run returns that run's name and       *)
(* leaves the record as it was.                                            *)
C5_SameNameTwice ==
    /\ \A k \in 1..Len(log) :
         IsMongoReturn(log[k]) =>
            /\ log[k].name = mongo[log[k].id]
            /\ mongo0[log[k].id] # NoName =>
                 /\ log[k].name = mongo0[log[k].id]
                 /\ mongo[log[k].id] = mongo0[log[k].id]
    /\ \A j \in 1..Len(log) : \A k \in (j + 1)..Len(log) :
         (IsMongoReturn(log[j]) /\ IsMongoReturn(log[k]) /\ log[j].id = log[k].id) =>
            /\ log[j].name = log[k].name
            /\ \A m \in j..k :
                 ~(log[m].op = "POST orbs" /\ log[m].res = "ok" /\ log[m].id = log[j].id)

\* one run called register_orb_mongo twice for one identity, and both returned
C5_Witness ==
    \E j \in 1..Len(log) : \E k \in (j + 1)..Len(log) :
        /\ IsMongoReturn(log[j])
        /\ IsMongoReturn(log[k])
        /\ log[j].id = log[k].id

(* C6: register_orb_core_app returns if and only if the payload reports    *)
(* affected_rows = 1; a 2xx payload with 0, with more than 1 or without    *)
(* affected_rows ends the run with a ValueError, an HTTP or transport      *)
(* failure ends it with HTTPError or URLError.                             *)
C6_ExactlyOneRow ==
    \A k \in 1..Len(log) :
        log[k].op = "POST graphql" =>
            LET e == log[k]
                one == e.res = "ok" /\ e.n = 1
            IN  /\ one => /\ k < Len(log)
                          /\ log[k + 1].op = "register_orb_core_app"
                          /\ log[k + 1].res = "return"
                /\ ~one => k = Len(log) /\ pc = "exit" /\ status = "aborted"
                /\ (e.res = "ok" /\ e.n # 1) => err = "ValueError"
                /\ e.res = "http" => err = "HTTPError"
                /\ e.res = "url" => err = "URLError"

\* a transported reply reporting affected_rows 0 ended the run with ValueError
C6_Witness ==
    /\ log # <<>>
    /\ log[Len(log)].op = "POST graphql"
    /\ log[Len(log)].res = "ok"
    /\ log[Len(log)].n = 0
    /\ status = "aborted"
    /\ err = "ValueError"

\* a step failed: a tool exited non-zero, or a reply was not accepted
Rejected(e) ==
    \/ e.res = "fail"
    \/ e.res = "url"
    \/ e.res = "http" /\ e.code # 409
    \/ e.op = "POST graphql" /\ e.res = "ok" /\ e.n # 1
    \/ e.op = "GET details" /\ e.res = "ok" /\ e.name = NoName

(* C7: in an interactive run a failed step ends the run: after it nothing  *)
(* happens but the umount of the finally block it was in, no further unit  *)
(* is started or reported, and the run does not report success.            *)
C7_FatalErrorHaltsRun ==
    /\ \A j \in 1..Len(log) :
         Rejected(log[j]) =>
            \A m \in (j + 1)..Len(log) :
                /\ m = j + 1
                /\ log[m].op = "umount"
                /\ log[m].unit = log[j].unit
                /\ log[j].op \in {"install", "setfacl", "sync"}
    /\ (\E e \in Events : Rejected(e)) =>
         /\ status # "success"
         /\ pc \in {"exit", "cpi_finally", "soa_finally"}
         /\ pc = "exit" => status = "aborted"
    /\ status = "aborted" =>
         /\ pc = "exit"
         /\ \A e \in Events : e.op # "all_done"
         /\ \A e \in Events : e.unit <= i

\* unit 1 of 2 failed and the run is over
C7_Witness ==
    /\ status = "aborted"
    /\ pc = "exit"
    /\ args.count = 2
    /\ i = 1
    /\ orb_id # NoId
    /\ \E e \in Events : e.unit = 1 /\ Rejected(e)

\* the successful mounts and the umount invocations of image n in unit u
\* (unit 0 is create_persistent_images)
MountsOk(u, n) ==
    LET T(e) == e.op = "mount" /\ e.unit = u /\ e.n = n /\ e.res = "ok"
    IN  CountEv(T)

Umounts(u, n) ==
    LET T(e) == e.op = "umount" /\ e.unit = u /\ e.n = n
    IN  CountEv(T)

UmountFailed == \E e \in Events : e.op = "umount" /\ e.res = "fail"

StepFailedIn(u) ==
    \E e \in Events :
        e.unit = u /\ e.op \in {"install", "setfacl", "sync"} /\ e.res = "fail"

CpiPcs == {"cpi_write", "cpi_prep", "cpi_mount", "cpi_try", "cpi_finally"}

SoaPcs == {"soa_mount", "soa_try", "soa_finally"}

C9_NoUnitImageMounted ==
    pc \notin SoaPcs => \A k \in 1..Len(mounted) : mounted[k].dir # "artifacts"

(* C9 amended: when save_orb_artifacts has returned or raised, umount has  *)
(* been invoked exactly once for each of the unit's images whose mount     *)
(* succeeded, also when an install step failed, and no image of a unit is  *)
(* still mounted unless that umount itself exited non-zero: then the       *)
(* operation raises and the image stays mounted.                           *)
C9_UnitImagesUnmounted ==
    pc \notin SoaPcs =>
        /\ \A u \in 1..i : \A n \in 1..Len(ImgNames) :
             /\ MountsOk(u, n) <= 1
             /\ Umounts(u, n) = MountsOk(u, n)
        /\ ~UmountFailed => \A k \in 1..Len(mounted) : mounted[k].dir # "artifacts"

\* installing into a unit's image failed, umount was invoked once and failed,
\* and the run ended with the unit's image still mounted
C9_Witness ==
    /\ status = "aborted"
    /\ pc = "exit"
    /\ i >= 1
    /\ StepFailedIn(i)
    /\ \E n \in 1..Len(ImgNames) : MountsOk(i, n) = 1 /\ Umounts(i, n) = 1
    /\ UmountFailed
    /\ mounted = <<ArtifactImg(orb_id, 1)>>

\* the mounts less the releases among the first k events of the log
MountedBefore(k) ==
    LET M(e) == e.op = "mount" /\ e.res = "ok"
        U(e) == e.op = "umount" /\ e.res = "ok"
        before == SubSeq(log, 1, k - 1)
    IN  Len(SelectSeq(before, M)) - Len(SelectSeq(before, U))

(* C10: at most one image is mounted at the mount point, mount is invoked  *)
(* only while nothing is mounted there, and the units do not interleave:   *)
(* every step of unit u+1 comes after unit u was reported as processed.    *)
C10_OneMountOneUnit ==
    /\ Len(mounted) <= 1
    /\ \A k \in 1..Len(log) : log[k].op = "mount" => MountedBefore(k) = 0
    /\ \A k \in 2..Len(log) :
         log[k].unit # log[k - 1].unit =>
            /\ log[k].unit = log[k - 1].unit + 1
            /\ log[k - 1].unit >= 1 => log[k - 1].op = "processed"

\* the second unit's image is the one image mounted
C10_Witness ==
    /\ i = 2
    /\ Len(mounted) = 1
    /\ mounted[1] = ArtifactImg(orb_id, 2)

(* C11: in an interactive run create_persistent_images is called once,     *)
(* by the run itself and not by a unit; every mke2fs and tune2fs           *)
(* invocation lies between that call and its return, once per image; and   *)
(* an identity is generated only after create_persistent_images returned.  *)
C11_BaseImagesBuiltOnce ==
    LET Call(e) == e.op = "create_persistent_images" /\ e.res = "call"
        Ret(e) == e.op = "create_persistent_images" /\ e.res = "return"
        called == IF \E k \in 1..Len(log) : Call(log[k])
                  THEN CHOOSE k \in 1..Len(log) : Call(log[k])
                  ELSE Len(log) + 1
        returned == IF \E k \in 1..Len(log) : Ret(log[k])
                    THEN CHOOSE k \in 1..Len(log) : Ret(log[k])
                    ELSE Len(log) + 1
    IN  /\ CountEv(Call) <= 1
        /\ CountEv(Ret) <= 1
        /\ \A t \in {"mke2fs", "tune2fs"} : \A n \in 1..Len(ImgNames) :
             LET T(e) == e.op = t /\ e.n = n
             IN  CountEv(T) <= 1
        /\ \A k \in 1..Len(log) :
             /\ log[k].op \in {"create_persistent_images", "mke2fs", "tune2fs"} =>
                    log[k].unit = 0
             /\ log[k].op \in {"mke2fs", "tune2fs"} => called < k /\ k < returned
             /\ log[k].unit >= 1 => returned < k

\* a run of two units ended in success, the base images built before unit 1
C11_Witness ==
    /\ status = "success"
    /\ args.count = 2
    /\ \E k \in 1..Len(log) :
         /\ log[k].op = "create_persistent_images" /\ log[k].res = "return"
         /\ log[k + 1].op = "generate_orb_id" /\ log[k + 1].unit = 1
    /\ \E e \in Events : e.op = "processed" /\ e.unit = 2

\* requests to the Management API, and the operations that send them
ManagementOps ==
    {"POST orbs", "GET details", "POST channel", "POST tokens",
     "register_orb_mongo", "fetch_existing_orb_name", "set_orb_channel",
     "get_orb_token"}

\* the positions of the run at which a request goes to the Management API
ManagementPcs == {"mongo_post", "mongo_fetch", "set_channel", "get_token"}

(* C12: in pairs mode every request to Core-App carries the name of the    *)
(* pair and the normalized identity of the pair, right after that pair's   *)
(* identity was normalized; a pair reported as processed went through      *)
(* normalize and register_orb_core_app in that order and its row holds the *)
(* supplied name; and the run sends nothing to the Management API.         *)
C12_PairsSkipManagementApi ==
    /\ pc \notin ManagementPcs
    /\ mongo = mongo0
    /\ \A k \in 1..Len(log) :
         /\ log[k].op \notin ManagementOps
         /\ log[k].op = "POST graphql" =>
               /\ log[k].unit \in 1..Len(orb_pairs)
               /\ log[k].name = orb_pairs[log[k].unit].name
               /\ log[k].id = check_orb_id_format(orb_pairs[log[k].unit].id)
               /\ k >= 3
               /\ log[k - 1].op = "register_orb_core_app" /\ log[k - 1].res = "call"
               /\ log[k - 2].op = "check_orb_id_format" /\ log[k - 2].res = "ok"
               /\ log[k - 2].unit = log[k].unit
         /\ log[k].op = "processed" =>
               /\ k >= 5
               /\ log[k - 1].op = "register_orb_core_app" /\ log[k - 1].res = "return"
               /\ log[k - 2].op = "POST graphql" /\ log[k - 2].unit = log[k].unit
               /\ log[k - 4].op = "check_orb_id_format"
               /\ coreapp[log[k].id] = orb_pairs[log[k].unit].name

\* the pair (2a, TestOrb) was registered as 0000002a, TestOrb
C12_Witness ==
    /\ status = "success"
    /\ orb_pairs = <<[id |-> <<"2", "a">>, name |-> "TestOrb"]>>
    /\ coreapp[Str_0000002a] = "TestOrb"
    /\ mongo[Str_0000002a] = NoName
    /\ \E e \in Events : e.op = "processed" /\ e.id = Str_0000002a

\* the events of unit u, as they happened
UnitEvents(u) ==
    LET T(e) == e.unit = u
    IN  SelectSeq(log, T)

(* C13: in identity-only mode every identity reported as processed was     *)
(* normalized first, then register_orb_mongo was called and returned, then *)
(* register_orb_core_app was called with the name register_orb_mongo had   *)
(* returned for the normalized identity, and returned; and the events of   *)
(* identity i+1 begin only after identity i was reported as processed.     *)
C13_BatchOperationsInOrder ==
    /\ \A k \in 1..Len(log) :
         log[k].op = "processed" =>
            LET u == log[k].unit
                id == check_orb_id_format(args.orb_ids[u])
                evs == UnitEvents(u)
                ops == UnitOps(u)
                G(e) == e.op = "POST graphql"
                posts == SelectSeq(evs, G)
            IN  /\ log[k].id = id
                /\ evs[1].op = "check_orb_id_format" /\ evs[1].res = "ok"
                /\ Len(ops) = 4
                /\ \A m \in 1..4 : ops[m].id = id
                /\ ops[1].op = "register_orb_mongo" /\ ops[1].res = "call"
                /\ ops[2].op = "register_orb_mongo" /\ ops[2].res = "return"
                /\ ops[3].op = "register_orb_core_app" /\ ops[3].res = "call"
                /\ ops[4].op = "register_orb_core_app" /\ ops[4].res = "return"
                /\ Len(posts) = 1
                /\ posts[1].id = id
                /\ posts[1].name = ops[2].name
                /\ ops[2].name = mongo[id]
    /\ \A k \in 2..Len(log) :
         log[k].unit # log[k - 1].unit =>
            /\ log[k].unit = log[k - 1].unit + 1
            /\ log[k - 1].unit >= 1 => log[k - 1].op = "processed"

\* a batch of two different identities, both reported as processed
C13_Witness ==
    /\ status = "success"
    /\ Len(args.orb_ids) = 2
    /\ \E e \in Events : e.unit = 1 /\ e.op = "processed" /\ e.id = Str_0000002a
    /\ \E e \in Events : e.unit = 2 /\ e.op = "processed" /\ e.id = Str_abcdef12

(* C14: in identity-only mode a failed step is the last thing the run      *)
(* does: it ends the run as aborted, no identity after the failing one is  *)
(* normalized or sent to a backend, and the identities reported as         *)
(* processed before it keep their Management API record and Core-App row.  *)
C14_BatchAbortsOnFirstFailure ==
    /\ \A k \in 1..Len(log) :
         /\ Rejected(log[k]) =>
               /\ k = Len(log)
               /\ pc = "exit"
               /\ status = "aborted"
         /\ log[k].unit <= i
         /\ log[k].op = "processed" =>
               /\ mongo[log[k].id] # NoName
               /\ coreapp[log[k].id] = mongo[log[k].id]
    /\ status = "aborted" =>
         /\ pc = "exit"
         /\ log # <<>>
         /\ Rejected(log[Len(log)])
         /\ \A e \in Events : e.op # "all_done"

\* the first of two identities was rejected by Core-App; the second was not begun
C14_Witness ==
    /\ status = "aborted"
    /\ Len(args.orb_ids) = 2
    /\ i = 1
    /\ log[Len(log)].op = "POST graphql"
    /\ mongo[orb_id] # NoName
    /\ \A e \in Events : e.unit <= 1

Zeros(n) == [k \in 1..n |-> "0"]

\* str with zeros on its left, up to IdLen characters
LeftPadded(str) == Zeros(IdLen - Len(str)) \o str

\* check_orb_id_format has been applied to the raw identity
Normalized == pc # "batch"

Signed(str) == str # <<>> /\ str[1] \in {"+", "-"}

(* C15 as stated: for every raw input of at most 8 characters the result   *)
(* has 8 characters and is the lowercased input with zeros on its left;    *)
(* a longer input is rejected and no identity is returned.                 *)
C15_PadsLeftWithZeros ==
    Normalized =>
        LET raw == args.orb_ids[1]
        IN  IF Len(raw) <= IdLen
            THEN /\ status = "running"
                 /\ Len(orb_id) = IdLen
                 /\ orb_id = LeftPadded(lower(raw))
            ELSE /\ status = "aborted"
                 /\ err = "ValueError"
                 /\ orb_id = NoId

(* C15 amended: for every raw input of at most 8 characters the result has *)
(* 8 characters, none of them upper case; it is the lowercased input with  *)
(* zeros on its left unless the input is shorter than 8 and begins with a  *)
(* sign, and then it is the sign, the zeros, and the rest of the lowercased*)
(* input; a longer input is rejected and no identity is returned.          *)
C15_PadsAfterSign ==
    Normalized =>
        LET raw == args.orb_ids[1]
            low == lower(raw)
        IN  IF Len(raw) <= IdLen
            THEN /\ status = "running"
                 /\ Len(orb_id) = IdLen
                 /\ \A k \in 1..IdLen : orb_id[k] \notin UpperChars
                 /\ orb_id = IF Signed(raw) /\ Len(raw) < IdLen
                             THEN <<low[1]>> \o Zeros(IdLen - Len(low)) \o Tail(low)
                             ELSE LeftPadded(low)
            ELSE /\ status = "aborted"
                 /\ err = "ValueError"
                 /\ orb_id = NoId

\* "-F" was normalized to "-000000f"
C15_Witness ==
    /\ Normalized
    /\ args.orb_ids[1] = <<"-", "F">>
    /\ status = "running"
    /\ orb_id = <<"-", "0", "0", "0", "0", "0", "0", "f">>

\* the positions at which the run invokes a tool or sends a request
StepPcs ==
    {"cf_token", "cpi_prep", "cpi_mount", "cpi_try", "cpi_finally", "mongo_post",
     "mongo_fetch", "set_channel", "get_token", "soa_mount", "soa_try",
     "soa_finally", "core_app"}

\* the step at hand fails: the run raises, at once or after the finally block
StepFails == NextPearl /\ (status' = "aborted" \/ (pending' /\ ~pending))

(* C16: an interactive run has ended exactly when it is in success (Done)  *)
(* or aborted; every position at which a tool is invoked or a request sent *)
(* has a failing outcome that leads to aborted, and a failed step is never *)
(* followed by success; a unit reported as processed has no later event;   *)
(* and an ended run takes no further step.                                 *)
C16_TerminalStates ==
    /\ [](/\ (pc = "exit") <=> (status \in {"success", "aborted"})
          /\ status \in {"running", "success", "aborted"}
          /\ (pc \in StepPcs \/ (pc = "unit" /\ i <= args.count)) => ENABLED StepFails
          /\ \A k \in 1..Len(log) :
               /\ Rejected(log[k]) =>
                     /\ status # "success"
                     /\ pc \in {"exit", "cpi_finally", "soa_finally"}
                     /\ pc = "exit" => status = "aborted"
               /\ k > 1 => log[k].unit >= log[k - 1].unit
               /\ (log[k].op = "processed" /\ k < Len(log)) =>
                     log[k + 1].unit = log[k].unit + 1)
    /\ [][pc # "exit"]_vars

\* a run of one unit that ended in success
C16_Witness ==
    /\ pc = "exit"
    /\ status = "success"
    /\ args.count = 1
    /\ \E e \in Events : e.op = "processed" /\ e.unit = 1

\* the error kind of a failed step, "" for a step that did not fail
ErrorKind(e) ==
    CASE e.op = "check_orb_id_format" /\ e.res = "fail" -> "InvalidIdentity"
      [] e.op = "detect_platform" /\ e.res = "fail" -> "UnknownHardwareVersion"
      [] e.op \notin {"check_orb_id_format", "detect_platform"} /\ e.res = "fail" ->
            "ToolFailure"
      [] e.res = "url" -> "TransportError"
      [] e.res = "http" /\ e.code # 409 -> "BackendRejected"
      [] e.op = "POST graphql" /\ e.res = "ok" /\ e.n # 1 -> "LogicError"
      [] e.op = "GET details" /\ e.res = "ok" /\ e.name = NoName -> "LogicError"
      [] OTHER -> ""

ListedKinds ==
    {"InvalidIdentity", "ToolFailure", "TransportError", "BackendRejected", "LogicError"}

Requests == {"POST orbs", "GET details", "POST channel", "POST tokens", "POST graphql"}

(* C18: in an interactive run each request (create, lookup, set-channel,   *)
(* issue-token, inventory-register) is sent at most once per unit, and a   *)
(* request that got no reply ends the run as aborted with nothing after    *)
(* it, just as one that got an error status other than a 409 on create.    *)
C18_NoRetry ==
    /\ \A u \in 1..i : \A op \in Requests :
         LET T(e) == e.unit = u /\ e.op = op
         IN  CountEv(T) <= 1
    /\ \A k \in 1..Len(log) :
         (log[k].res = "url" \/ (log[k].res = "http" /\ log[k].code # 409)) =>
            /\ log[k].op \in Requests
            /\ k = Len(log)
            /\ pc = "exit"
            /\ status = "aborted"
            /\ err = (IF log[k].res = "url" THEN "URLError" ELSE "HTTPError")

\* the second unit's set-channel request got no reply, and the run is over
C18_Witness ==
    /\ status = "aborted"
    /\ i = 2
    /\ log[Len(log)].op = "POST channel"
    /\ log[Len(log)].res = "url"
    /\ log[Len(log)].unit = 2

\* a tool invocation of create_persistent_images exited non-zero
CpiFailed ==
    \E k \in 1..Len(log) :
        /\ log[k].unit = 0
        /\ log[k].res = "fail"
        /\ log[k].op \in {"mke2fs", "tune2fs", "mount", "install", "setfacl", "sync", "umount"}

(* C19: when a mke2fs, tune2fs, mount, install, setfacl or sync (or        *)
(* umount) invocation of create_persistent_images has failed, the run does *)
(* not succeed and ends as aborted once the finally block is through; no   *)
(* identity is generated, no request is sent to a backend, no backend      *)
(* record changes, and artifacts/ holds no bundle.                         *)
C19_BaseImageFailureAbortsRun ==
    CpiFailed =>
        /\ status # "success"
        /\ pc \in {"cpi_finally", "exit"}
        /\ pc = "exit" => status = "aborted" /\ err = "CalledProcessError"
        /\ i = 0
        /\ orb_id = NoId
        /\ mongo = mongo0
        /\ coreapp = core0
        /\ \A id \in Ids : ~artifacts[id].exists
        /\ \A k \in 1..Len(log) :
             /\ log[k].unit = 0
             /\ log[k].op \notin Requests \cup {"generate_orb_id", "ssh-keygen"}
             /\ log[k].op \notin {UnitOperations[m] : m \in 1..Len(UnitOperations)}

\* setfacl failed on the second base image, and the run is over
C19_Witness ==
    /\ CpiFailed
    /\ pc = "exit"
    /\ status = "aborted"
    /\ args.count = 2
    /\ \E e \in Events : e.op = "setfacl" /\ e.n = 2 /\ e.res = "fail"

\* the names of the files on an image
FileNames(image) == {f.name : f \in image.files}

\* an ext4 image with ACL support
Formatted(image) == image.fs = "ext4" /\ image.acl

\* a formatted image with the baseline files and the default ACL
Populated(image) ==
    /\ Formatted(image)
    /\ image.defacl
    /\ {"components.json", "calibration.json", "versions.json"} \subseteq FileNames(image)

UnitFiles == {"orb-name", "token"}

AllImages ==
    {build.img[n] : n \in 1..Len(ImgNames)}
    \cup {artifacts[id].img[n] : id \in Ids, n \in 1..Len(ImgNames)}

(* C20: mount is invoked in create_persistent_images only after mke2fs and *)
(* tune2fs succeeded on both images, so whenever an image is mounted both  *)
(* base images are formatted and ACL-enabled; an image holds orb-name or   *)
(* token only if both base images are populated with the baseline files,   *)
(* and a base image never holds them; and of the formatted base images     *)
(* persistent.img has no journal and persistent-journaled.img has one.     *)
C20_BaseImagesAsPair ==
    /\ \A k \in 1..Len(log) :
         log[k].op = "mount" =>
            \A t \in {"mke2fs", "tune2fs"} : \A n \in 1..Len(ImgNames) :
                \E j \in 1..(k - 1) :
                    log[j].op = t /\ log[j].n = n /\ log[j].res = "ok"
    /\ mounted # <<>> => \A n \in 1..Len(ImgNames) : Formatted(build.img[n])
    /\ \A image \in AllImages :
         FileNames(image) \cap UnitFiles # {} =>
            /\ Populated(image)
            /\ \A n \in 1..Len(ImgNames) : Populated(build.img[n])
    /\ \A n \in 1..Len(ImgNames) : FileNames(build.img[n]) \cap UnitFiles = {}
    /\ build.img[1].fs = "ext4" => ~build.img[1].journal
    /\ build.img[2].fs = "ext4" => build.img[2].journal

\* a unit's token is on its journaled image, a copy of the populated base image
C20_Witness ==
    /\ orb_id # NoId
    /\ "token" \in FileNames(artifacts[orb_id].img[2])
    /\ Populated(artifacts[orb_id].img[2])
    /\ artifacts[orb_id].img[2].journal
    /\ ~artifacts[orb_id].img[1].journal
    /\ \A n \in 1..Len(ImgNames) : Populated(build.img[n])

\* the files a unit's personalization installs are on this image
Personalized(image) == UnitFiles \subseteq FileNames(image)

(* C21: personalization never changes the base images: no step of          *)
(* save_orb_artifacts, and no step of a unit at all, changes               *)
(* build/persistent.img or build/persistent-journaled.img, so after any    *)
(* number of units, processed or failed, the two files are as              *)
(* create_persistent_images left them; save_orb_artifacts mounts only the  *)
(* copies under artifacts/<orb_id>/.                                       *)
C21_BaseImagesUntouched ==
    [][ /\ pc \notin CpiPcs => build'.img = build.img
        /\ pc \in SoaPcs =>
             \A k \in 1..Len(mounted') : mounted'[k] = ArtifactImg(orb_id, mounted'[k].n)
      ]_vars

\* unit 1 was processed and unit 2 failed while its image was being
\* personalized: the copies hold the unit files, the base images do not
C21_Witness ==
    /\ status = "aborted"
    /\ i = 2
    /\ StepFailedIn(2)
    /\ \E e \in Events : e.op = "processed" /\ e.unit = 1
    /\ \E id \in Ids : \A n \in 1..Len(ImgNames) : Personalized(artifacts[id].img[n])
    /\ \A n \in 1..Len(ImgNames) :
         /\ Populated(build.img[n])
         /\ FileNames(build.img[n]) \cap UnitFiles = {}

\* what operation op of unit u returned
ValueReturned(u, op) ==
    LET R(e) == e.unit = u /\ e.op = op /\ e.res = "return"
    IN  log[CHOOSE k \in 1..Len(log) : R(log[k])].name

\* image holds the file name, owned by root with mode 644, with these contents
HoldsUnitFile(image, name, data) ==
    \A f \in image.files : f.name = name <=> f = File(name, 0, 0, 644, data)

\* a unit after position k of the log started to save artifacts for identity id
SavedAgainAfter(k, id) ==
    \E j \in (k + 1)..Len(log) :
        log[j].op = "save_orb_artifacts" /\ log[j].res = "call" /\ log[j].id = id

(* C22: for every interactive unit reported as processed, both images      *)
(* under artifacts/<orb_id>/ hold an orb-name file whose contents are the  *)
(* display name register_orb_mongo returned to that unit and a token file  *)
(* whose contents are the token get_orb_token returned to that unit, and   *)
(* no other orb-name or token file; this is so when the unit is reported   *)
(* and for as long as no later unit saves artifacts under the same         *)
(* identity.                                                               *)
C22_BundleHoldsNameAndToken ==
    \A k \in 1..Len(log) :
        (log[k].op = "processed" /\ ~SavedAgainAfter(k, log[k].id)) =>
            LET u == log[k].unit
                dir == artifacts[log[k].id]
            IN  /\ ReturnedIn(u, "register_orb_mongo")
                /\ ReturnedIn(u, "get_orb_token")
                /\ \A n \in 1..Len(ImgNames) :
                     /\ UnitFiles \subseteq FileNames(dir.img[n])
                     /\ HoldsUnitFile(dir.img[n], "orb-name",
                                      ValueReturned(u, "register_orb_mongo"))
                     /\ HoldsUnitFile(dir.img[n], "token",
                                      ValueReturned(u, "get_orb_token"))

\* two units with different identities, names and tokens were both processed
C22_Witness ==
    /\ status = "success"
    /\ \E e1, e2 \in Events :
         /\ e1.op = "processed" /\ e1.unit = 1
         /\ e2.op = "processed" /\ e2.unit = 2
         /\ e1.id # e2.id
         /\ ValueReturned(1, "register_orb_mongo") # ValueReturned(2, "register_orb_mongo")
         /\ ValueReturned(1, "get_orb_token") # ValueReturned(2, "get_orb_token")
         /\ \A n \in 1..Len(ImgNames) :
              Personalized(artifacts[e1.id].img[n]) /\ Personalized(artifacts[e2.id].img[n])

\* the requests that go to the Management API
ManagementRequests == {"POST orbs", "GET details", "POST channel", "POST tokens"}

\* cloudflared access token printed a token at position k of the log
TokenObtainedAt(k) == log[k].op = "cloudflared token" /\ log[k].res = "ok"

(* C23: in one run cloudflared access login and cloudflared access token   *)
(* are each invoked at most once, as the first two tool invocations of     *)
(* the run; every request to a backend comes after the token was printed;  *)
(* and every request to the Management API (create, lookup, set-channel,   *)
(* issue-token), of every unit, carries that one token value as its        *)
(* cf-access-token.                                                        *)
C23_OneGatewayTokenPerRun ==
    /\ \A k \in 1..Len(log) :
         /\ log[k].op = "cloudflared login" => k = 1
         /\ log[k].op = "cloudflared token" => k = 2
         /\ log[k].op \in Requests =>
               /\ k > 2
               /\ TokenObtainedAt(2)
         /\ log[k].op \in ManagementRequests =>
               /\ log[k].cf = log[2].cf
               /\ log[k].cf \in CfTokens
    /\ (Len(log) >= 2 /\ TokenObtainedAt(2) /\ status = "running") =>
          cf_token = log[2].cf

\* unit 1 was processed and unit 2, whose identity was taken, got its name by
\* lookup, then its channel and its token: all four kinds of request were
\* sent, those of unit 2 with the token value printed at the start of the run
C23_Witness ==
    /\ cf_token = "cf-b"
    /\ \E e \in Events : e.op = "processed" /\ e.unit = 1
    /\ \A op \in ManagementRequests :
         \E e \in Events : e.op = op /\ e.unit = 2 /\ e.res # "url" /\ e.cf = "cf-b"
    /\ \E e \in Events : e.op = "get_orb_token" /\ e.unit = 2 /\ e.res = "return"

\* the number of whitespace-separated fields of a line
FieldCount(line) == Cardinality({k \in 1..Len(line) : line[k] \notin {" ", "\t"}})

\* some non-blank line of the file does not have exactly two fields
HasMalformedLine(file) ==
    \E k \in 1..Len(file) : FieldCount(file[k]) \notin {0, 2}

\* a line of two fields comes before a malformed line of the file
GoodLineBeforeMalformed(file) ==
    \E j, k \in 1..Len(file) :
        j < k /\ FieldCount(file[j]) = 2 /\ FieldCount(file[k]) \notin {0, 2}

(* C24: when some non-blank line of the pairs file does not have exactly   *)
(* two whitespace-separated fields, reading the file raises ValueError     *)
(* before any pair is processed: the run ends aborted right after the      *)
(* gateway token, no identity of the file is normalized, no request goes   *)
(* to Core-App and Core-App has the rows it had when the run started,      *)
(* also for the well-formed lines that come before the malformed one.      *)
C24_MalformedLineFailsBatch ==
    (PairsMode /\ HasMalformedLine(args.file)) =>
        /\ pc \in {"cf_token", "read_pairs", "exit"}
        /\ coreapp = core0
        /\ \A k \in 1..Len(log) :
             log[k].op \in {"cloudflared login", "cloudflared token",
                            "read_input_pairs_file"}
        /\ (pc = "exit" /\ Len(log) >= 2 /\ TokenObtainedAt(2)) =>
              /\ status = "aborted"
              /\ err = "ValueError"
              /\ log[Len(log)].op = "read_input_pairs_file"
              /\ log[Len(log)].res = "fail"

\* a file whose second line is malformed was read, and the run is over
C24_Witness ==
    /\ PairsMode
    /\ GoodLineBeforeMalformed(args.file)
    /\ pc = "exit"
    /\ status = "aborted"
    /\ err = "ValueError"
    /\ \E e \in Events : e.op = "read_input_pairs_file" /\ e.res = "fail"

\* the key ssh-keygen wrote for unit u
KeyOf(u) ==
    LET K(e) == e.op = "ssh-keygen" /\ e.unit = u /\ e.res = "ok"
    IN  log[CHOOSE k \in 1..Len(log) : K(log[k])].name

\* exactly 8 lowercase hex characters
IsOrbIdentity(id) ==
    /\ Len(id) = 8
    /\ \A k \in 1..Len(id) : id[k] \in {HexDigits[d] : d \in 1..Len(HexDigits)}

\* the identity of unit u is derived from the key generated for unit u
DerivedFromOwnKey(u, id) ==
    /\ \E k \in 1..Len(log) :
         log[k].op = "ssh-keygen" /\ log[k].unit = u /\ log[k].res = "ok"
    /\ id = SubSeq(Sha256Hex(KeyOf(u)), 1, 8)
    /\ IsOrbIdentity(id)

(* C25: generate_orb_id invokes ssh-keygen once per call, and the identity *)
(* it returns is the first 8 characters of the lowercase hex SHA-256       *)
(* digest of the public key that invocation wrote: 8 lowercase hex         *)
(* characters, the same for the same key, and never derived from the key   *)
(* of another unit.                                                        *)
C25_IdentityFromFreshKey ==
    /\ \A u \in 1..i :
         LET K(e) == e.op = "ssh-keygen" /\ e.unit = u
         IN  CountEv(K) <= 1
    /\ \A k \in 1..Len(log) :
         /\ log[k].op = "ssh-keygen" =>
               /\ k >= 2
               /\ log[k - 1].op = "generate_orb_id" /\ log[k - 1].unit = log[k].unit
         /\ log[k].op = "detect_platform" =>
               DerivedFromOwnKey(log[k].unit, log[k].id)
    /\ (orb_id # NoId) => DerivedFromOwnKey(i, orb_id)
    /\ (build.pub # NoKey /\ i >= 1 /\ pc # "unit") => build.pub = KeyOf(i)

\* two units got different keys whose digests share the first 8 characters:
\* the identity of the second unit is that of the first
C25_Witness ==
    /\ i = 2
    /\ orb_id = Str_0000002a
    /\ \E e \in Events : e.op = "detect_platform" /\ e.unit = 1 /\ e.id = Str_0000002a
    /\ \E e \in Events : e.op = "ssh-keygen" /\ e.unit = 1 /\ e.res = "ok"
    /\ \E e \in Events : e.op = "ssh-keygen" /\ e.unit = 2 /\ e.res = "ok"
    /\ KeyOf(1) # KeyOf(2)

\* create_persistent_images returned
BaseImagesBuilt ==
    \E e \in Events : e.op = "create_persistent_images" /\ e.res = "return"

(* C26: whatever --hardware-version and --count are, once                  *)
(* create_persistent_images has returned build/ holds exactly two images:  *)
(* persistent.img, 1048576 bytes (1 MiB) and without a journal, and        *)
(* persistent-journaled.img, 10485760 bytes (10 MiB) and with a journal;   *)
(* the files have these sizes from the moment they are written.            *)
C26_BaseImageSizes ==
    /\ Len(build.img) = 2
    /\ Len(ImgNames) = 2
    /\ (\E e \in Events : e.op = "create_persistent_images" /\ e.res = "call") =>
          /\ build.img[1].size = 1048576
          /\ build.img[2].size = 10485760
    /\ BaseImagesBuilt =>
          /\ ImgNames[1] = "persistent.img"
          /\ build.img[1].fs = "ext4" /\ ~build.img[1].journal
          /\ ImgNames[2] = "persistent-journaled.img"
          /\ build.img[2].fs = "ext4" /\ build.img[2].journal

\* the base images were built in a run with --count 0 and a hardware version
\* that is neither pearl nor diamond
C26_Witness ==
    /\ BaseImagesBuilt
    /\ args.count = 0
    /\ detect_platform(args.hardware_version) = ""
    /\ status = "success"
    /\ build.img[1].size = 1024 * 1024
    /\ build.img[2].size = 10 * 1024 * 1024

\* the invocations below the mount point
TrySteps == {"install", "setfacl", "sync"}

\* the positions of the run inside a try or finally block
TryPcs == {"cpi_try", "cpi_finally", "soa_try", "soa_finally"}

\* the mount at position k of the log is followed by an invocation of umount
\* for the same image of the same unit, with nothing but the steps of the try
\* block between them
Released(k) ==
    \E j \in (k + 1)..Len(log) :
        /\ log[j].op = "umount"
        /\ log[j].unit = log[k].unit
        /\ log[j].n = log[k].n
        /\ \A m \in (k + 1)..(j - 1) : log[m].op \in TrySteps

\* the operation that invoked the mount at position k is still in its try block
InTryBlock(k) ==
    /\ pc \in TryPcs
    /\ log[k].unit = i
    /\ log[k].n = img
    /\ \A m \in (k + 1)..Len(log) : log[m].op \in TrySteps

(* C27 as stated: every invocation of mount, also one that exits non-zero, *)
(* is followed by an invocation of umount on the mount point before        *)
(* create_persistent_images or save_orb_artifacts exits.                   *)
C27_EveryMountReleased ==
    \A k \in 1..Len(log) :
        log[k].op = "mount" => Released(k) \/ InTryBlock(k)

(* C27 amended: every invocation of mount that succeeds is followed by one *)
(* invocation of umount on the mount point before the enclosing operation  *)
(* exits, whether the steps between them succeed or fail; an invocation of *)
(* mount that exits non-zero is followed by no umount: mount is invoked    *)
(* before the try statement, so the operation raises CalledProcessError at *)
(* once and the run ends.                                                  *)
C27_SuccessfulMountReleased ==
    \A k \in 1..Len(log) :
        log[k].op = "mount" =>
            IF log[k].res = "ok"
            THEN Released(k) \/ InTryBlock(k)
            ELSE /\ k = Len(log)
                 /\ pc = "exit"
                 /\ status = "aborted"
                 /\ err = "CalledProcessError"

\* the first image of a unit was mounted and released, the mount of the
\* second image failed, and the run ended with no further umount
C27_Witness ==
    /\ pc = "exit"
    /\ i >= 1
    /\ Len(log) >= 1
    /\ log[Len(log)].op = "mount" /\ log[Len(log)].res = "fail"
    /\ log[Len(log)].n = 2 /\ log[Len(log)].unit = i
    /\ MountsOk(i, 1) = 1 /\ Umounts(i, 1) = 1
    /\ Umounts(i, 2) = 0

(* C28 as stated: for every --platform and --hardware-version the run      *)
(* accepts, the Platform value of every create request equals the flow     *)
(* the run executes: pearl in the interactive flow (--platform pearl),     *)
(* diamond in the batch flow (--platform diamond).                         *)
C28_PlatformMatchesPath ==
    \A k \in 1..Len(log) :
        log[k].op = "POST orbs" => log[k].platform = args.platform

\* the tools and operations that build, mount or personalize an image or
\* write a bundle, and the set-channel and issue-token operations
InteractiveOnlyOps ==
    {"ssh-keygen", "generate_orb_id", "create_persistent_images", "mke2fs",
     "tune2fs", "mount", "umount", "install", "setfacl", "sync",
     "save_orb_artifacts", "set_orb_channel", "POST channel", "get_orb_token",
     "POST tokens"}

\* the positions of the run at which one of them is invoked
InteractiveOnlyPcs ==
    CpiPcs \cup SoaPcs \cup {"unit", "soa_prepare", "set_channel", "get_token"}

(* C29: a batch run (--platform diamond, identities or pairs) never        *)
(* generates a key, builds or mounts an image, writes below artifacts/ or  *)
(* build/, or calls set_orb_channel or get_orb_token: no such invocation   *)
(* is in its log, nothing is mounted, build/ and artifacts/ stay as they   *)
(* were and the run holds no token.  An identity reported as processed has *)
(* an inventory row, and in identity-only mode a management record.        *)
C29_BatchBuildsNothing ==
    args.platform = "diamond" =>
        /\ pc \notin InteractiveOnlyPcs
        /\ mounted = <<>>
        /\ build = [uid |-> NoKey, pub |-> NoKey, img |-> <<NoImage, NoImage>>]
        /\ \A id \in Ids : artifacts[id] = NoDir
        /\ token = NoToken
        /\ \A k \in 1..Len(log) :
             /\ log[k].op \notin InteractiveOnlyOps
             /\ log[k].op = "processed" =>
                   /\ coreapp[log[k].id] # NoName
                   /\ ~PairsMode => mongo[log[k].id] # NoName

\* an identity-only batch of two identities ended in success: both have a
\* management record and an inventory row, and nothing else was done
C29_Witness ==
    /\ args.platform = "diamond"
    /\ ~PairsMode
    /\ status = "success"
    /\ Len(args.orb_ids) = 2
    /\ \E e \in Events : e.op = "processed" /\ e.unit = 1 /\ e.id = Str_0000002a
    /\ \E e \in Events : e.op = "processed" /\ e.unit = 2 /\ e.id = Str_abcdef12
    /\ \A id \in Ids : mongo[id] # NoName /\ coreapp[id] # NoName

\* the raw identity at position u of the batch input
RawIdAt(u) == IF PairsMode THEN orb_pairs[u].id ELSE args.orb_ids[u]

\* the number of identities of the batch input
InputLen == IF PairsMode THEN Len(orb_pairs) ELSE Len(args.orb_ids)

\* the identity at position u of the input is registered in the backends
RegisteredAt(u) ==
    LET id == check_orb_id_format(RawIdAt(u))
    IN  /\ \E e \in Events : e.op = "processed" /\ e.unit = u /\ e.id = id
        /\ coreapp[id] # NoName
        /\ ~PairsMode => mongo[id] # NoName

(* C30: a batch run checks each identity when its turn comes in the loop.  *)
(* When check_orb_id_format rejects the identity at position k (it is      *)
(* longer than 8 characters), the run ends there with ValueError: the      *)
(* identities at positions 1..k-1 have each been reported as processed and *)
(* are registered in the backends, and no request is ever sent for the     *)
(* identity at position k or for one after it.                             *)
C30_LazyValidation ==
    \A k \in 1..Len(log) :
        /\ (log[k].op = "check_orb_id_format" /\ log[k].res = "fail") =>
              /\ k = Len(log)
              /\ pc = "exit" /\ status = "aborted" /\ err = "ValueError"
              /\ log[k].unit \in 1..InputLen
              /\ Len(RawIdAt(log[k].unit)) > 8
              /\ \A v \in 1..(log[k].unit - 1) : RegisteredAt(v)
        /\ log[k].op \in Requests =>
              /\ log[k].unit \in 1..InputLen
              /\ \A v \in 1..log[k].unit : Len(RawIdAt(v)) <= 8

\* the first identity of the batch was registered, the second is too long:
\* the run ended at its check
C30_Witness ==
    /\ args.platform = "diamond"
    /\ InputLen = 2
    /\ pc = "exit"
    /\ status = "aborted"
    /\ Len(RawIdAt(2)) > 8
    /\ log[Len(log)].op = "check_orb_id_format" /\ log[Len(log)].res = "fail"
    /\ log[Len(log)].unit = 2
    /\ RegisteredAt(1)

\* position k of the log is the call of save_orb_artifacts for identity id
SavesAt(k, id) ==
    log[k].op = "save_orb_artifacts" /\ log[k].res = "call" /\ log[k].id = id

(* C31 as stated: the bundle of a unit is never overwritten by another     *)
(* unit.  When the identity generated for a unit is already registered or  *)
(* already has a directory under artifacts/, the run does not take the     *)
(* name of the existing record and write key material, orb-name, token and *)
(* images at the existing path: no two units save artifacts under one      *)
(* identity, and the directory of a unit reported as processed keeps the   *)
(* key generated for that unit.                                            *)
C31_BundlesNeverOverwritten ==
    /\ \A j, k \in 1..Len(log) :
         (j < k /\ log[j].op = "save_orb_artifacts" /\ log[j].res = "call"
                /\ SavesAt(k, log[j].id)) => log[j].unit = log[k].unit
    /\ \A k \in 1..Len(log) :
         log[k].op = "processed" => artifacts[log[k].id].pub = KeyOf(log[k].unit)

(* C32: the channel of every set-channel request is the one the           *)
(* constructor fixed from (backend, platform, requested channel): on stage *)
(* internal-testing for pearl and dev_diamond_channel for diamond,         *)
(* whatever was requested; on prod diamond-tier-ga for diamond with        *)
(* general requested, and the requested channel otherwise.  With any other *)
(* backend the constructor raises ValueError: the run ends before any tool *)
(* is invoked or any request is sent.                                      *)
C32_ChannelFixedAtConstruction ==
    /\ (args.backend = "stage" /\ args.platform = "pearl") =>
          channel = "internal-testing"
    /\ (args.backend = "stage" /\ args.platform = "diamond") =>
          channel = "dev_diamond_channel"
    /\ (args.backend = "prod" /\ args.platform = "diamond" /\ args.channel = "general") =>
          channel = "diamond-tier-ga"
    /\ (args.backend = "prod" /\ ~(args.platform = "diamond" /\ args.channel = "general")) =>
          channel = args.channel
    /\ \A k \in 1..Len(log) :
         log[k].op = "POST channel" =>
            /\ args.backend \in {"stage", "prod"}
            /\ log[k].name =
                  (IF args.backend = "stage" THEN "internal-testing" ELSE args.channel)
    /\ args.backend \notin {"stage", "prod"} =>
          /\ log = <<>>
          /\ pc \in {"construct", "exit"}
          /\ pc = "exit" => status = "aborted" /\ err = "ValueError"

\* a pearl unit on prod got the requested channel, which is not general
C32_Witness ==
    /\ args.backend = "prod"
    /\ args.platform = "pearl"
    /\ args.channel = "jabil-evt"
    /\ \E k \in 1..Len(log) :
         log[k].op = "POST channel" /\ log[k].res = "ok" /\ log[k].name = "jabil-evt"
    /\ status = "success"


\* C33: for every payload x, read_and_strip_existing_signature applied to
\* the bytes main writes for x (x, the signature, the 4-byte length, the
\* tag) returns (x, True): the length field is decoded as it was encoded.
C33_SignatureRoundTrip ==
    (pc = "exit" /\ status = "success") =>
        read_and_strip_existing_signature(files.output_file.data) =
            [data |-> read_and_strip_existing_signature(files.input_binary.data).data,
             signed |-> TRUE]

\* C34: signing a file this tool signed is rejected without --clobber and
\* writes no output; with --clobber the output is the original payload and
\* exactly one signature trailer.
C34_ResignRejectedOrReplaced ==
    (pc = "exit" /\ Len(files.raw_private_key.data) = 32) =>
        \A x \in Payloads :
            files.input_binary.data = SignedFile(files.raw_private_key.data, x) =>
                IF args.clobber
                THEN files.output_file = Bytes(SignedFile(files.raw_private_key.data, x))
                ELSE status = "aborted" /\ ~files.output_file.exists

\* the microcontrollers whose binary path was given on the command line
SuppliedMcus == {Mcus[k] : k \in {j \in 1..Len(Mcus) : PathOf(Mcus[j]) # None}}

\* some binary path was supplied and that file does not exist
AnySuppliedPathMissing ==
    SuppliedAndMissing("mainboard") \/ SuppliedAndMissing("security")

\* the names of the components of the manifest in response.json
ManifestMcus ==
    LET c == files.response.data.manifest.components
    IN  {c[k].name : k \in 1..Len(c)}

\* C35: a binary path that was supplied and does not exist ends the tool
\* with an error before response.json is written, so every manifest written
\* holds one component for each binary path that was supplied.
C35_WrongPathRejected ==
    pc = "exit" =>
        /\ AnySuppliedPathMissing => status = "aborted" /\ ~files.response.exists
        /\ files.response.exists =>
              /\ ManifestMcus = SuppliedMcus
              /\ Len(files.response.data.manifest.components) = Cardinality(SuppliedMcus)

====
